---- MODULE Spec2Model ----
(***************************************************************************)
(* Mask segmentation engine of the medical_vision library                  *)
(* (medical_vision::Segmentation, src/src/segmentation.cpp and the         *)
(* watershed engine in src/src/chest_x_ray_analyzer.cpp).                  *)
(*                                                                         *)
(* An image (cv::Mat, CV_8UC1) is a record [w, h, px] with px the          *)
(* row-major sequence of its w*h samples; the default-constructed cv::Mat  *)
(* is the record with w = h = 0.  A call of an entry point is one action:  *)
(* it records the call and the outcome (mask, exception or crash) together *)
(* with the engine's raw mask and the functions the call went through.     *)
(* OpenCV primitives are modelled by what they compute on 8-bit data.      *)
(***************************************************************************)
EXTENDS Integers, Sequences, FiniteSets, TLC

VARIABLES image, call, ret, prev

vars == <<image, call, ret, prev>>

-----------------------------------------------------------------------------
(* Bounds of the model.                                                    *)

Width == 2
Height == 2

\* The two intensities of the images of Spec, and a third one for SpecRG.
Levels == {100, 200}
RGLevels == {10, 11, 13}

\* ThresholdParams.threshold in half units (a double in the code): 2 * threshold.
Thresholds2 == {-2, 199, 200, 201, 300, 510}
MaxValues == {0, 100, 255, 300}

\* AdaptiveParams: block sizes (11 is the default), offsets C and maximum values.
BlockSizes == {-3, 0, 1, 2, 3, 4, 5}
Offsets == {2, 60}
AdaptiveMaxValues == {100, 255}

\* RegionGrowingParams.threshold.
Tolerances == {0, 100}

-----------------------------------------------------------------------------
(* cv::Mat                                                                 *)

EmptyMat == [w |-> 0, h |-> 0, px |-> << >>]

IsEmpty(m) == m.w = 0 \/ m.h = 0

\* Column and row of the i-th sample.
XOf(m, i) == (i - 1) % m.w
YOf(m, i) == (i - 1) \div m.w

At(m, x, y) == m.px[y * m.w + x + 1]

InBounds(m, x, y) == x >= 0 /\ x < m.w /\ y >= 0 /\ y < m.h

Points(m) == (0..(m.w - 1)) \X (0..(m.h - 1))

Zeros(m) == [m EXCEPT !.px = [i \in DOMAIN m.px |-> 0]]

SaturateU8(v) == IF v < 0 THEN 0 ELSE IF v > 255 THEN 255 ELSE v

SetMin(S) == CHOOSE a \in S : \A b \in S : a <= b
SetMax(S) == CHOOSE a \in S : \A b \in S : a >= b

-----------------------------------------------------------------------------
(* Outcomes of a call.                                                     *)

\* what() of the exceptions the code throws itself.
MsgEmptyInput == "Input image is empty"
MsgNoSeeds == "No seeds provided for region growing"
MsgNoMarkers == "No valid markers or seeds provided for watershed"
MsgSegmentFailed == "Segmentation failed: "
MsgWatershedFailed == "Watershed segmentation failed: "
\* cv::Exception raised by a failed CV_Assert inside OpenCV.
MsgCvBlockSize == "cv::Exception: blockSize % 2 == 1 && blockSize > 1"
MsgCvEmpty == "cv::Exception: !_src.empty()"

\* markers and labels are the marker map of watershed before and after
\* cv::watershed, out the result of getContours or drawSegmentation; each is
\* empty for a call that has none.
Returned(mask, rawMask, fns) ==
    [kind |-> "mask", err |-> << >>, mask |-> mask, raw |-> rawMask, fns |-> fns,
     markers |-> EmptyMat, labels |-> EmptyMat, out |-> << >>]

Thrown(msgs, rawMask, fns) ==
    [kind |-> "error", err |-> msgs, mask |-> EmptyMat, raw |-> rawMask, fns |-> fns,
     markers |-> EmptyMat, labels |-> EmptyMat, out |-> << >>]

Crashed(fns) ==
    [kind |-> "crash", err |-> << >>, mask |-> EmptyMat, raw |-> EmptyMat, fns |-> fns,
     markers |-> EmptyMat, labels |-> EmptyMat, out |-> << >>]

NoRet ==
    [kind |-> "none", err |-> << >>, mask |-> EmptyMat, raw |-> EmptyMat, fns |-> << >>,
     markers |-> EmptyMat, labels |-> EmptyMat, out |-> << >>]

\* The error kind of a failure: the innermost message, whatever wraps it.
ErrorKind(r) ==
    IF r.kind # "error" THEN "none"
    ELSE LET m == r.err[Len(r.err)]
         IN  CASE m = MsgEmptyInput -> "EmptyInput"
               [] m = MsgNoSeeds -> "NoSeeds"
               [] m = MsgNoMarkers -> "NoMarkers"
               [] m = MsgCvBlockSize -> "InvalidParameter"
               [] OTHER -> "LibraryError"

-----------------------------------------------------------------------------
(* Segmentation::prepareImage: a CV_8UC1 input is cloned unchanged.        *)

prepareImage(input) == input

-----------------------------------------------------------------------------
(* cv::threshold on 8-bit data, THRESH_BINARY / THRESH_BINARY_INV.         *)
(* thresh2 is twice the double threshold; OpenCV compares against          *)
(* cvFloor(thresh) and writes saturate_cast<uchar>(cvRound(maxval)).       *)

cvThresholdMutGE(src, thresh2, maxval, inv) ==
    LET ithresh == thresh2 \div 2
        imaxval == SaturateU8(maxval)
    IN  [src EXCEPT !.px = [i \in DOMAIN src.px |->
                                IF (src.px[i] >= ithresh) # inv THEN imaxval ELSE 0]]

cvThresholdMutWrap(src, thresh2, maxval, inv) ==
    LET ithresh == thresh2 \div 2
        imaxval == maxval % 256
    IN  [src EXCEPT !.px = [i \in DOMAIN src.px |->
                                IF (src.px[i] > ithresh) # inv THEN imaxval ELSE 0]]

cvThreshold(src, thresh2, maxval, inv) ==
    LET ithresh == thresh2 \div 2
        imaxval == SaturateU8(maxval)
    IN  IF ithresh < 0 \/ ithresh >= 255
        THEN LET v == IF inv
                      THEN (IF ithresh >= 255 THEN imaxval ELSE 0)
                      ELSE (IF ithresh >= 255 THEN 0 ELSE imaxval)
             IN  [src EXCEPT !.px = [i \in DOMAIN src.px |-> v]]
        ELSE [src EXCEPT !.px = [i \in DOMAIN src.px |->
                                   IF (src.px[i] > ithresh) # inv THEN imaxval ELSE 0]]

\* What an OpenCV primitive does with an empty source depends on the OpenCV
\* build: it throws from a CV_Assert or hands back an empty matrix.
cvOnEmpty(fns) ==
    {Thrown(<<MsgCvEmpty>>, EmptyMat, fns), Returned(EmptyMat, EmptyMat, fns)}

-----------------------------------------------------------------------------
(* Morphology with getStructuringElement(MORPH_ELLIPSE, Size(3, 3)), which *)
(* is the 3x3 cross; pixels outside the image are ignored (the default     *)
(* border value of erode and dilate).                                      *)

Kernel == {<<0, -1>>, <<-1, 0>>, <<0, 0>>, <<1, 0>>, <<0, 1>>}

Neighbourhood(m, x, y) ==
    {At(m, x + d[1], y + d[2]) : d \in {e \in Kernel : InBounds(m, x + e[1], y + e[2])}}

cvErode(m) ==
    [m EXCEPT !.px = [i \in DOMAIN m.px |-> SetMin(Neighbourhood(m, XOf(m, i), YOf(m, i)))]]

cvDilate(m) ==
    [m EXCEPT !.px = [i \in DOMAIN m.px |-> SetMax(Neighbourhood(m, XOf(m, i), YOf(m, i)))]]

MorphOpen(m) == cvDilate(cvErode(m))

MorphClose(m) == cvErode(cvDilate(m))

postProcessMaskMutDilate(mask) == cvDilate(MorphOpen(mask))

postProcessMaskMutNoOpen(mask) == MorphClose(mask)

postProcessMask(mask) == MorphClose(MorphOpen(mask))

-----------------------------------------------------------------------------
(* Segmentation::threshold                                                 *)

DefaultThresholdParams == [thr2 |-> 256, maxValue |-> 255, invert |-> FALSE]

threshold(input, params) ==
    LET processed == prepareImage(input)
        fns == <<"threshold", "prepareImage", "cv::threshold">>
    IN  IF IsEmpty(processed)
        THEN cvOnEmpty(fns)
        ELSE LET result == cvThreshold(processed, params.thr2, params.maxValue,
                                       params.invert)
             IN  {Returned(result, result, fns)}

-----------------------------------------------------------------------------
(* Segmentation::otsuThreshold: cv::threshold(.., 0, 255, THRESH_BINARY |  *)
(* THRESH_OTSU).  getThreshVal_Otsu_8u scans i = 0..255 and keeps the      *)
(* first i whose between-class variance q1*q2*(mu1-mu2)^2 is strictly      *)
(* larger than every earlier one; splits with an empty class are skipped.  *)
(* The variance only changes at intensities that occur, so the scan is     *)
(* over those.  With n1, s1 (n2, s2) the count and sum of the samples <= i *)
(* (> i) the variance is (s1*n2 - s2*n1)^2 / (n1*n2) up to the factor N^4. *)
(* The scan computes the variance in doubles: where two intensities give   *)
(* the same variance exactly, rounding decides whether the later one counts *)
(* as strictly larger, so either may be returned.                          *)

\* Sum and number of the samples with lo <= value <= hi.
SumIn(src, lo, hi) ==
    LET RECURSIVE Go(_)
        Go(i) == IF i = 0 THEN 0
                 ELSE (IF src.px[i] >= lo /\ src.px[i] <= hi THEN src.px[i] ELSE 0) + Go(i - 1)
    IN  Go(Len(src.px))

CountIn(src, lo, hi) ==
    Cardinality({i \in 1..Len(src.px) : src.px[i] >= lo /\ src.px[i] <= hi})

OtsuNum(src, i) ==
    LET n1 == CountIn(src, 0, i)
        n2 == CountIn(src, i + 1, 255)
        s1 == SumIn(src, 0, i)
        s2 == SumIn(src, i + 1, 255)
    IN  (s1 * n2 - s2 * n1) * (s1 * n2 - s2 * n1)

OtsuDen(src, i) == CountIn(src, 0, i) * CountIn(src, i + 1, 255)

getThreshVal_Otsu_8uMutMinimises(src) ==
    LET cand == {i \in {src.px[k] : k \in 1..Len(src.px)} : OtsuDen(src, i) > 0}
        Better(i, j) == OtsuNum(src, i) * OtsuDen(src, j) < OtsuNum(src, j) * OtsuDen(src, i)
        best == {i \in cand : OtsuNum(src, i) > 0 /\ \A j \in cand : ~Better(j, i)}
    IN  IF best = {} THEN {0} ELSE best

\* The thresholds the scan may return.
getThreshVal_Otsu_8u(src) ==
    LET cand == {i \in {src.px[k] : k \in 1..Len(src.px)} : OtsuDen(src, i) > 0}
        Better(i, j) == OtsuNum(src, i) * OtsuDen(src, j) > OtsuNum(src, j) * OtsuDen(src, i)
        best == {i \in cand : OtsuNum(src, i) > 0 /\ \A j \in cand : ~Better(j, i)}
    IN  IF best = {} THEN {0} ELSE best

otsuThreshold(input) ==
    LET processed == prepareImage(input)
        fns == <<"otsuThreshold", "prepareImage", "cv::threshold">>
    IN  IF IsEmpty(processed)
        THEN cvOnEmpty(fns)
        ELSE {LET result == cvThreshold(processed, 2 * t, 255, FALSE)
              IN  Returned(result, result, fns) : t \in getThreshVal_Otsu_8u(processed)}

-----------------------------------------------------------------------------
(* Segmentation::adaptiveThreshold: cv::adaptiveThreshold with             *)
(* ADAPTIVE_THRESH_GAUSSIAN_C whatever the method.  The local mean is a    *)
(* Gaussian blur (BORDER_REPLICATE) rounded to 8 bits; the kernel of an    *)
(* odd size up to 7 is OpenCV's fixed table, the kernel of size 11 (the    *)
(* default block size) is the sigma = 2.0 kernel in units of 1/2048.         *)

GaussianKernel(n) ==
    CASE n = 1 -> <<1>>
      [] n = 3 -> <<1, 2, 1>>
      [] n = 5 -> <<1, 4, 6, 4, 1>>
      [] n = 7 -> <<2, 7, 14, 18, 14, 7, 2>>
      [] OTHER -> <<18, 56, 133, 249, 362, 411, 362, 249, 133, 56, 18>>

SeqSum(s) ==
    LET RECURSIVE Go(_)
        Go(i) == IF i = 0 THEN 0 ELSE s[i] + Go(i - 1)
    IN  Go(Len(s))

Clamp(v, lo, hi) == IF v < lo THEN lo ELSE IF v > hi THEN hi ELSE v

\* cvRound: to the nearest integer, halves to the even one (num >= 0, den > 0).
RoundHalfEven(num, den) ==
    LET q == num \div den
        r2 == 2 * (num % den)
    IN  IF r2 < den THEN q
        ELSE IF r2 > den THEN q + 1
        ELSE IF q % 2 = 0 THEN q ELSE q + 1

GaussianMean(src, n, x, y) ==
    LET k == GaussianKernel(n)
        half == (Len(k) - 1) \div 2
        total == SeqSum(k)
        RowSum(yy) ==
            SeqSum([a \in 1..Len(k) |->
                      k[a] * At(src, Clamp(x + a - 1 - half, 0, src.w - 1), yy)])
        acc == SeqSum([b \in 1..Len(k) |->
                         k[b] * RowSum(Clamp(y + b - 1 - half, 0, src.h - 1))])
    IN  SaturateU8(RoundHalfEven(acc, total * total))

\* CV_Assert(blockSize % 2 == 1 && blockSize > 1) of cv::adaptiveThreshold;
\* % is the C++ remainder, which is -1 for a negative odd number.
CRem2(n) == IF n >= 0 THEN n % 2 ELSE -((-n) % 2)

cvBlockSizeAcceptedMutNoParity(blockSize) == blockSize > 1

cvBlockSizeAccepted(blockSize) == CRem2(blockSize) = 1 /\ blockSize > 1

cvAdaptiveThreshold(src, maxValue, inv, blockSize, C) ==
    LET imaxval == SaturateU8(maxValue)
    IN  IF maxValue < 0 THEN Zeros(src)
        ELSE [src EXCEPT !.px = [i \in DOMAIN src.px |->
                 IF (src.px[i] - GaussianMean(src, blockSize, XOf(src, i), YOf(src, i)) > -C) # inv
                 THEN imaxval ELSE 0]]

DefaultAdaptiveParams == [blockSize |-> 11, C |-> 2, maxValue |-> 255, invert |-> FALSE]

adaptiveThreshold(input, params) ==
    LET processed == prepareImage(input)
        fns == <<"adaptiveThreshold", "prepareImage", "cv::adaptiveThreshold">>
    IN  IF ~cvBlockSizeAccepted(params.blockSize)
        THEN {Thrown(<<MsgCvBlockSize>>, EmptyMat, fns)}
        ELSE IF IsEmpty(processed)
        THEN cvOnEmpty(fns)
        ELSE LET result == cvAdaptiveThreshold(processed, params.maxValue, params.invert,
                                               params.blockSize, params.C)
             IN  {Returned(result, result, fns)}

-----------------------------------------------------------------------------
(* Segmentation::regionGrowing.  The frontier is a std::vector used as a   *)
(* stack; the neighbour scan is the double loop i (rows), j (columns) over *)
(* all eight neighbours: params.connectivity is never read.                *)

Abs(v) == IF v < 0 THEN -v ELSE v

SetPixel(m, p, v) == [m EXCEPT !.px[p[2] * m.w + p[1] + 1] = v]

AtP(m, p) == At(m, p[1], p[2])

\* (j, i) in the order of the loops "for i = -1..1, for j = -1..1", (0,0) skipped.
ScanOffsets ==
    << <<-1, -1>>, <<0, -1>>, <<1, -1>>, <<-1, 0>>, <<1, 0>>, <<-1, 1>>, <<0, 1>>, <<1, 1>> >>

AdmittedMutAgainstOrigin(processed, mask, current, tol) ==
    LET cand == [k \in 1..Len(ScanOffsets) |->
                   <<current[1] + ScanOffsets[k][1], current[2] + ScanOffsets[k][2]>>]
        Ok(q) == /\ InBounds(processed, q[1], q[2])
                 /\ AtP(mask, q) # 255
                 /\ Abs(AtP(processed, <<0, 0>>) - AtP(processed, q)) <= tol
    IN  SelectSeq(cand, Ok)

AdmittedMutFlipped(processed, mask, current, tol) ==
    LET cand == [k \in 1..Len(ScanOffsets) |->
                   <<current[1] + ScanOffsets[k][1], current[2] + ScanOffsets[k][2]>>]
        Ok(q) == /\ InBounds(processed, q[1], q[2])
                 /\ AtP(mask, q) # 255
                 /\ Abs(AtP(processed, current) - AtP(processed, q)) >= tol
    IN  SelectSeq(cand, Ok)

Admitted(processed, mask, current, tol) ==
    LET cand == [k \in 1..Len(ScanOffsets) |->
                   <<current[1] + ScanOffsets[k][1], current[2] + ScanOffsets[k][2]>>]
        Ok(q) == /\ InBounds(processed, q[1], q[2])
                 /\ AtP(mask, q) # 255
                 /\ Abs(AtP(processed, current) - AtP(processed, q)) <= tol
    IN  SelectSeq(cand, Ok)

RECURSIVE GrowQueue(_, _, _, _)
GrowQueue(processed, mask, queue, tol) ==
    IF queue = << >> THEN mask
    ELSE LET current == queue[Len(queue)]
             rest == SubSeq(queue, 1, Len(queue) - 1)
         IN  IF AtP(mask, current) = 255
             THEN GrowQueue(processed, mask, rest, tol)
             ELSE LET claimed == SetPixel(mask, current, 255)
                  IN  GrowQueue(processed, claimed,
                                rest \o Admitted(processed, claimed, current, tol), tol)

\* Only the first seed is grown.
GrowSeedsMutFirstOnly(processed, mask, seeds, tol) ==
    IF seeds = << >> THEN mask
    ELSE GrowQueue(processed, mask, <<Head(seeds)>>, tol)

RECURSIVE GrowSeeds(_, _, _, _)
GrowSeeds(processed, mask, seeds, tol) ==
    IF seeds = << >> THEN mask
    ELSE IF AtP(mask, Head(seeds)) = 255
         THEN GrowSeeds(processed, mask, Tail(seeds), tol)
         ELSE GrowSeeds(processed, GrowQueue(processed, mask, <<Head(seeds)>>, tol),
                        Tail(seeds), tol)

DefaultRegionGrowingParams == [seeds |-> << >>, tol |-> 20, connectivity |-> 8]

SeedsInBounds(m, seeds) == \A k \in 1..Len(seeds) : InBounds(m, seeds[k][1], seeds[k][2])

\* at<uchar>(p) is data[p.y * step + p.x] with no check.  A seed outside the
\* image whose address is inside the buffer reads and writes the pixel at that
\* address; for an address outside the buffer the access crashes, or hits a
\* byte of some other object, read as 255 or as another value and written
\* with 255.

\* The values a read of processed outside its buffer may give.
OutsideBytes == {10, 12, 255}

AddressOf(m, p) == p[2] * m.w + p[1]

InBuffer(m, p) == AddressOf(m, p) >= 0 /\ AddressOf(m, p) < m.w * m.h

\* Line 144 without the test: a popped point is claimed whatever the mask holds.
IsClaimedMutNever(mask, outside, p) == FALSE

\* mask.at<uchar>(p) == 255, lines 135 and 144; outside holds the addresses
\* outside the buffer that the call has written.
IsClaimed(mask, outside, p) ==
    IF InBuffer(mask, p) THEN mask.px[AddressOf(mask, p) + 1] = 255
    ELSE AddressOf(mask, p) \in outside

\* Lines 150-166 for the point current of intensity currentIntensity.
AdmittedFrom(processed, mask, current, currentIntensity, tol) ==
    LET cand == [k \in 1..Len(ScanOffsets) |->
                   <<current[1] + ScanOffsets[k][1], current[2] + ScanOffsets[k][2]>>]
        Ok(q) == /\ InBounds(processed, q[1], q[2])
                 /\ AtP(mask, q) # 255
                 /\ Abs(currentIntensity - AtP(processed, q)) <= tol
    IN  SelectSeq(cand, Ok)

\* Lines 134-171 with seeds outside the image, for the runs that do not crash.
RECURSIVE GrowSeedsUnchecked(_, _, _, _, _)
GrowSeedsUnchecked(processed, mask, outside, seeds, tol) ==
    IF seeds = << >> THEN {mask}
    ELSE LET seed == Head(seeds)
             i == AddressOf(mask, seed) + 1
             claimed == [mask EXCEPT !.px[i] = 255]
             skip == GrowSeedsUnchecked(processed, mask, outside, Tail(seeds), tol)
             from(m, intensity, out) ==
                 GrowSeedsUnchecked(processed,
                     GrowQueue(processed, m, AdmittedFrom(processed, m, seed, intensity, tol),
                               tol),
                     out, Tail(seeds), tol)
         IN  IF IsClaimed(mask, outside, seed) THEN skip
             ELSE IF InBuffer(mask, seed) THEN from(claimed, processed.px[i], outside)
             ELSE skip \cup UNION {from(mask, v, outside \cup {i - 1}) : v \in OutsideBytes}

regionGrowingLoop(input, params) ==
    LET processed == prepareImage(input)
        fns == <<"regionGrowing", "prepareImage">>
        mask == Zeros(processed)
    IN  IF ~SeedsInBounds(processed, params.seeds)
        THEN {Crashed(fns)} \cup
             {Returned(grown, grown, fns) :
                 grown \in GrowSeedsUnchecked(processed, mask, {}, params.seeds, params.tol)}
        ELSE LET grown == GrowSeeds(processed, mask, params.seeds, params.tol)
             IN  {Returned(grown, grown, fns)}

regionGrowingMutNoSeedCheck(input, params) == regionGrowingLoop(input, params)

regionGrowing(input, params) ==
    IF params.seeds = << >>
    THEN {Thrown(<<MsgNoSeeds>>, EmptyMat, <<"regionGrowing", "prepareImage">>)}
    ELSE regionGrowingLoop(input, params)

-----------------------------------------------------------------------------
(* Segmentation::watershed (src/src/chest_x_ray_analyzer.cpp).             *)

\* cv::circle(markers, seed, 2, label, -1): the filled circle of radius 2 that
\* OpenCV rasterizes is the diamond |dx| + |dy| <= 2, clipped to the matrix.
SeedRadius == 2

DrawCircle(markers, seed, label) ==
    [markers EXCEPT !.px = [i \in DOMAIN markers.px |->
        IF Abs(XOf(markers, i) - seed[1]) + Abs(YOf(markers, i) - seed[2]) <= SeedRadius
        THEN label ELSE markers.px[i]]]

\* Every seed is drawn, whether inside the matrix or not.
RECURSIVE MarkSeedsMutNoBoundsCheck(_, _, _)
MarkSeedsMutNoBoundsCheck(markers, seeds, label) ==
    IF seeds = << >> THEN markers
    ELSE MarkSeedsMutNoBoundsCheck(DrawCircle(markers, Head(seeds), label), Tail(seeds), label)

RECURSIVE MarkSeeds(_, _, _)
MarkSeeds(markers, seeds, label) ==
    IF seeds = << >> THEN markers
    ELSE MarkSeeds(IF InBounds(markers, Head(seeds)[1], Head(seeds)[2])
                   THEN DrawCircle(markers, Head(seeds), label)
                   ELSE markers,
                   Tail(seeds), label)

\* Labels of cv::watershed.
WSHED == -1
IN_QUEUE == -2

OnFrame(m, x, y) == x = 0 \/ y = 0 \/ x = m.w - 1 \/ y = m.h - 1

\* left, right, up, down: the order in which cv::watershed looks at neighbours.
Neighbours4(p) ==
    << <<p[1] - 1, p[2]>>, <<p[1] + 1, p[2]>>, <<p[1], p[2] - 1>>, <<p[1], p[2] + 1>> >>

\* The interior pixels in row-major order.
InteriorSeq(m) ==
    LET all == [i \in 1..(m.w * m.h) |-> <<(i - 1) % m.w, (i - 1) \div m.w>>]
    IN  SelectSeq(all, LAMBDA p : ~OnFrame(m, p[1], p[2]))

\* First pass: the frame becomes WSHED, every unlabelled interior pixel with a
\* labelled neighbour is queued at its smallest difference to such a neighbour.
WsFramed(markers) ==
    [markers EXCEPT !.px = [i \in DOMAIN markers.px |->
        IF OnFrame(markers, XOf(markers, i), YOf(markers, i)) THEN WSHED
        ELSE IF markers.px[i] < 0 THEN 0 ELSE markers.px[i]]]

RECURSIVE WsInitial(_, _, _, _)
WsInitial(img, labels, todo, queue) ==
    IF todo = << >> THEN <<labels, queue>>
    ELSE LET p == Head(todo)
             nb == Neighbours4(p)
             pos == {k \in 1..4 : AtP(labels, nb[k]) > 0}
         IN  IF AtP(labels, p) = 0 /\ pos # {}
             THEN LET idx == SetMin({Abs(AtP(img, p) - AtP(img, nb[k])) : k \in pos})
                  IN  WsInitial(img, SetPixel(labels, p, IN_QUEUE), Tail(todo),
                                Append(queue, <<idx, p>>))
             ELSE WsInitial(img, labels, Tail(todo), queue)

\* The label a popped pixel gets from its neighbours: the one positive label
\* around it, or WSHED when two different ones meet.
RECURSIVE WsLabel(_, _, _, _)
WsLabel(labels, nb, k, lab) ==
    IF k > 4 THEN lab
    ELSE LET t == AtP(labels, nb[k])
         IN  WsLabel(labels, nb, k + 1,
                     IF t > 0
                     THEN (IF lab = 0 THEN t ELSE IF t # lab THEN WSHED ELSE lab)
                     ELSE lab)

\* Queue the unlabelled neighbours of p, in the neighbour order.
RECURSIVE WsPush(_, _, _, _, _)
WsPush(img, labels, queue, p, k) ==
    IF k > 4 THEN <<labels, queue>>
    ELSE LET q == Neighbours4(p)[k]
         IN  IF AtP(labels, q) = 0
             THEN WsPush(img, SetPixel(labels, q, IN_QUEUE),
                         Append(queue, <<Abs(AtP(img, p) - AtP(img, q)), q>>), p, k + 1)
             ELSE WsPush(img, labels, queue, p, k + 1)

\* Flooding: pop the oldest entry of the lowest non-empty priority.
RECURSIVE WsFlood(_, _, _)
WsFlood(img, labels, queue) ==
    IF queue = << >> THEN labels
    ELSE LET low == SetMin({queue[k][1] : k \in 1..Len(queue)})
             at == SetMin({k \in 1..Len(queue) : queue[k][1] = low})
             p == queue[at][2]
             rest == SubSeq(queue, 1, at - 1) \o SubSeq(queue, at + 1, Len(queue))
             lab == WsLabel(labels, Neighbours4(p), 1, 0)
             labelled == SetPixel(labels, p, lab)
         IN  IF lab = WSHED
             THEN WsFlood(img, labelled, rest)
             ELSE LET pushed == WsPush(img, labelled, rest, p, 1)
                  IN  WsFlood(img, pushed[1], pushed[2])

cvWatershed(img, markers) ==
    LET framed == WsFramed(markers)
        start == WsInitial(img, framed, InteriorSeq(markers), << >>)
    IN  WsFlood(img, start[1], start[2])

MsgCvAddTypes == "cv::Exception: the input arrays of add have different types"

DefaultWatershedParams ==
    [useDistanceTransform |-> TRUE, foregroundSeeds |-> << >>, backgroundSeeds |-> << >>]

\* In the distance-transform branch "background + cv::Mat(foreground * 255)"
\* adds a CV_8U and a CV_32F matrix without an output type, which cv::add
\* rejects; with an empty input cv::cvtColor(input, ..) rejects the input.
\* The else branch of "else if (!foregroundSeeds.empty() ||
\* !backgroundSeeds.empty())": no seed was given at all.
NoSeedsGivenMutEither(params) ==
    params.foregroundSeeds = << >> \/ params.backgroundSeeds = << >>

NoSeedsGiven(params) ==
    params.foregroundSeeds = << >> /\ params.backgroundSeeds = << >>

\* result.setTo(255, markers == 2) on a zero matrix.
ResultOfLabelsMutPositive(labels) ==
    [labels EXCEPT !.px = [i \in DOMAIN labels.px |-> IF labels.px[i] > 0 THEN 255 ELSE 0]]

ResultOfLabels(labels) ==
    [labels EXCEPT !.px = [i \in DOMAIN labels.px |-> IF labels.px[i] = 2 THEN 255 ELSE 0]]

watershed(input, params) ==
    LET processed == prepareImage(input)
        fns == <<"watershed", "prepareImage">>
    IN  IF params.useDistanceTransform
        THEN {Thrown(<<MsgWatershedFailed, MsgCvAddTypes>>, EmptyMat, fns)}
        ELSE IF NoSeedsGiven(params)
        THEN {Thrown(<<MsgWatershedFailed, MsgNoMarkers>>, EmptyMat, fns)}
        ELSE IF IsEmpty(input)
        THEN {Thrown(<<MsgWatershedFailed, MsgCvEmpty>>, EmptyMat, fns)}
        ELSE LET markers == MarkSeeds(MarkSeeds(Zeros(processed), params.backgroundSeeds, 1),
                                      params.foregroundSeeds, 2)
                 labels == cvWatershed(input, markers)
                 result == ResultOfLabels(labels)
                 done == Returned(MorphClose(result), result,
                                  fns \o <<"cv::watershed", "cv::morphologyEx(MORPH_CLOSE)">>)
             IN  {[done EXCEPT !.markers = markers, !.labels = labels]}

-----------------------------------------------------------------------------
(* Segmentation::segment                                                   *)

MsgUnknownMethod == "Unknown segmentation method"

Methods ==
    {"THRESHOLD", "OTSU", "ADAPTIVE_MEAN", "ADAPTIVE_GAUSSIAN", "REGION_GROWING",
     "WATERSHED", "GRAPH_CUT"}

\* The part of segment that produces "result": the engine of the method, or
\* nothing at all (the default-constructed cv::Mat) for the two methods whose
\* call is commented out.
segmentDispatch(input, method, null, params) ==
    CASE method = "THRESHOLD" ->
             threshold(input, IF null THEN DefaultThresholdParams ELSE params)
      [] method = "OTSU" -> otsuThreshold(input)
      [] method \in {"ADAPTIVE_MEAN", "ADAPTIVE_GAUSSIAN"} ->
             adaptiveThreshold(input, IF null THEN DefaultAdaptiveParams ELSE params)
      [] method = "REGION_GROWING" ->
             regionGrowing(input, IF null THEN DefaultRegionGrowingParams ELSE params)
      [] method \in {"WATERSHED", "GRAPH_CUT"} -> {Returned(EmptyMat, EmptyMat, << >>)}
      [] OTHER -> {Thrown(<<MsgUnknownMethod>>, EmptyMat, << >>)}

\* return postProcessMask(result), inside the try block that rewraps every
\* std::exception.
segmentFinish(r, fns) ==
    CASE r.kind = "error" -> {Thrown(<<MsgSegmentFailed>> \o r.err, r.raw, fns \o r.fns)}
      [] r.kind = "crash" -> {Crashed(fns \o r.fns)}
      [] OTHER ->
           LET through == fns \o r.fns \o <<"postProcessMask">>
           IN  IF IsEmpty(r.mask)
               THEN {Thrown(<<MsgSegmentFailed, MsgCvEmpty>>, r.mask, through),
                     Returned(EmptyMat, r.mask, through)}
               ELSE {Returned(postProcessMask(r.mask), r.mask, through)}

segmentMutNoPostProcess(input, method, null, params) ==
    IF IsEmpty(input)
    THEN {Thrown(<<MsgSegmentFailed, MsgEmptyInput>>, EmptyMat, <<"segment", "validateInput">>)}
    ELSE UNION {IF r.kind = "mask"
                THEN {Returned(r.mask, r.mask, <<"segment", "validateInput">> \o r.fns)}
                ELSE segmentFinish(r, <<"segment", "validateInput">>)
                : r \in segmentDispatch(input, method, null, params)}

segment(input, method, null, params) ==
    IF IsEmpty(input)
    THEN {Thrown(<<MsgSegmentFailed, MsgEmptyInput>>, EmptyMat, <<"segment", "validateInput">>)}
    ELSE UNION {segmentFinish(r, <<"segment", "validateInput">>)
                : r \in segmentDispatch(input, method, null, params)}

-----------------------------------------------------------------------------
(* Inputs.                                                                 *)

ImagesOver(L) ==
    {[w |-> Width, h |-> Height, px |-> p] : p \in [1..(Width * Height) -> L]}

Images == ImagesOver(Levels) \cup {EmptyMat}

ThresholdParamsSet ==
    [thr2 : Thresholds2, maxValue : MaxValues, invert : BOOLEAN]

AdaptiveParamsSet ==
    [blockSize : BlockSizes, C : Offsets, maxValue : AdaptiveMaxValues, invert : BOOLEAN]

\* Seed points a caller may pass: the pixels of the image, and (0,0) for the
\* empty image, where every point is outside.
SeedPoints(m) == IF IsEmpty(m) THEN {<<0, 0>>} ELSE Points(m)

RegionGrowingParamsSet(m) ==
    [seeds : {<< >>} \cup {<<p>> : p \in SeedPoints(m)},
     tol : Tolerances, connectivity : {4, 8}]

WatershedParamsSet(m) ==
    [useDistanceTransform : BOOLEAN,
     foregroundSeeds : {<< >>, <<<<0, 0>>>>, <<<<m.w - 1, m.h - 1>>>>},
     backgroundSeeds : {<< >>, <<<<m.w - 1, 0>>>>, <<<<-1, 0>>>>}]

NoCall == [entry |-> "none", method |-> "none", null |-> FALSE, params |-> << >>]

Called(entry, method, null, params) ==
    [entry |-> entry, method |-> method, null |-> null, params |-> params]

Idle == call.entry = "none"

-----------------------------------------------------------------------------
(* The calls.  The caller holds one image; it calls an entry point, gets   *)
(* the outcome, and drops it before the next call.                         *)

Init ==
    /\ image \in Images
    /\ call = NoCall
    /\ ret = NoRet
    /\ prev = <<NoCall, NoRet>>

CallThreshold ==
    /\ Idle
    /\ \E p \in ThresholdParamsSet :
        /\ call' = Called("threshold", "THRESHOLD", FALSE, p)
        /\ ret' \in threshold(image, p)
    /\ UNCHANGED <<image, prev>>

CallOtsuThreshold ==
    /\ Idle
    /\ call' = Called("otsuThreshold", "OTSU", FALSE, << >>)
    /\ ret' \in otsuThreshold(image)
    /\ UNCHANGED <<image, prev>>

CallAdaptiveThreshold ==
    /\ Idle
    /\ \E p \in AdaptiveParamsSet :
        /\ call' = Called("adaptiveThreshold", "ADAPTIVE_GAUSSIAN", FALSE, p)
        /\ ret' \in adaptiveThreshold(image, p)
    /\ UNCHANGED <<image, prev>>

CallRegionGrowing ==
    /\ Idle
    /\ \E p \in RegionGrowingParamsSet(image) :
        /\ call' = Called("regionGrowing", "REGION_GROWING", FALSE, p)
        /\ ret' \in regionGrowing(image, p)
    /\ UNCHANGED <<image, prev>>

CallWatershed ==
    /\ Idle
    /\ \E p \in WatershedParamsSet(image) :
        /\ call' = Called("watershed", "WATERSHED", FALSE, p)
        /\ ret' \in watershed(image, p)
    /\ UNCHANGED <<image, prev>>

\* segment(input, method, params) with the parameter struct of the method.
SegmentParams(m, method) ==
    CASE method = "THRESHOLD" -> ThresholdParamsSet
      [] method \in {"ADAPTIVE_MEAN", "ADAPTIVE_GAUSSIAN"} -> AdaptiveParamsSet
      [] method = "REGION_GROWING" -> RegionGrowingParamsSet(m)
      [] method = "WATERSHED" -> WatershedParamsSet(m)
      [] OTHER -> {}

CallSegment ==
    /\ Idle
    /\ \E method \in Methods :
        \/ \E p \in SegmentParams(image, method) :
            /\ call' = Called("segment", method, FALSE, p)
            /\ ret' \in segment(image, method, FALSE, p)
        \/ /\ call' = Called("segment", method, TRUE, << >>)
           /\ ret' \in segment(image, method, TRUE, << >>)
    /\ UNCHANGED <<image, prev>>

Release ==
    /\ ~Idle
    /\ call' = NoCall
    /\ ret' = NoRet
    /\ UNCHANGED <<image, prev>>

Next ==
    \/ CallSegment
    \/ CallThreshold
    \/ CallOtsuThreshold
    \/ CallAdaptiveThreshold
    \/ CallRegionGrowing
    \/ CallWatershed
    \/ Release

Spec == Init /\ [][Next]_vars

-----------------------------------------------------------------------------
(* Region growing called twice on one image with the same seeds and        *)
(* connectivity: the caller keeps the first mask and calls again with a    *)
(* larger tolerance.                                                       *)

RGImages == ImagesOver(RGLevels)

RGTolerances == {0, 1, 2}

RGSeedLists(m) == {<<<<0, 0>>>>, <<<<m.w - 1, m.h - 1>>, <<0, 0>>>>}

RGParamsSet(m) == [seeds : RGSeedLists(m), tol : RGTolerances, connectivity : {8}]

InitRG ==
    /\ image \in RGImages
    /\ call = NoCall
    /\ ret = NoRet
    /\ prev = <<NoCall, NoRet>>

RGCall ==
    /\ Idle
    /\ \E p \in RGParamsSet(image) :
        /\ \/ prev[1] = NoCall
           \/ /\ prev[1] # NoCall
              /\ p.seeds = prev[1].params.seeds
              /\ p.connectivity = prev[1].params.connectivity
              /\ p.tol > prev[1].params.tol
        /\ call' = Called("regionGrowing", "REGION_GROWING", FALSE, p)
        /\ ret' \in regionGrowing(image, p)
    /\ UNCHANGED <<image, prev>>

RGKeep ==
    /\ ~Idle
    /\ prev[1] = NoCall
    /\ prev' = <<call, ret>>
    /\ call' = NoCall
    /\ ret' = NoRet
    /\ UNCHANGED image

NextRG ==
    \/ RGCall
    \/ RGKeep

SpecRG == InitRG /\ [][NextRG]_vars

-----------------------------------------------------------------------------
(* Vocabulary of the properties.                                           *)

Range(f) == {f[i] : i \in DOMAIN f}

Went(fn) == fn \in Range(ret.fns)

\* The parameter struct the engine sees: the caller's, or the default one
\* when segment is given a null pointer.
EffParams ==
    IF ~call.null THEN call.params
    ELSE CASE call.method = "THRESHOLD" -> DefaultThresholdParams
           [] call.method \in {"ADAPTIVE_MEAN", "ADAPTIVE_GAUSSIAN"} -> DefaultAdaptiveParams
           [] call.method = "REGION_GROWING" -> DefaultRegionGrowingParams
           [] OTHER -> DefaultWatershedParams

\* The threshold engine ran on pixels and left a raw mask.
ThresholdRan == call.method = "THRESHOLD" /\ Went("cv::threshold") /\ ~IsEmpty(ret.raw)

\* C1: threshold with invert = false gives a pixel the foreground value iff
\* its intensity is strictly greater than the threshold; a pixel equal to the
\* threshold gets the background value 0.
C1_ThresholdStrict ==
    (ThresholdRan /\ ~EffParams.invert) =>
        \A p \in Points(image) :
            AtP(ret.raw, p) = IF 2 * AtP(image, p) > EffParams.thr2
                              THEN SaturateU8(EffParams.maxValue) ELSE 0

C1_Witness ==
    /\ call.entry = "threshold" /\ ThresholdRan /\ ~EffParams.invert
    /\ SaturateU8(EffParams.maxValue) # 0
    /\ \E p, q \in Points(image) :
        /\ 2 * AtP(image, p) = EffParams.thr2 /\ AtP(ret.raw, p) = 0
        /\ 2 * AtP(image, q) > EffParams.thr2 /\ AtP(ret.raw, q) # 0

\* C2 as stated: threshold with invert = true gives a pixel the foreground
\* value iff its intensity is strictly less than the threshold; a pixel equal
\* to the threshold is background.
C2_InvertStrictlyLess ==
    (ThresholdRan /\ EffParams.invert) =>
        \A p \in Points(image) :
            AtP(ret.raw, p) = IF 2 * AtP(image, p) < EffParams.thr2
                              THEN SaturateU8(EffParams.maxValue) ELSE 0

\* C2 as amended: with invert = true a pixel gets the foreground value iff its
\* intensity is less than or equal to the threshold; a pixel equal to the
\* threshold is foreground.
C2_InvertLessOrEqual ==
    (ThresholdRan /\ EffParams.invert) =>
        \A p \in Points(image) :
            AtP(ret.raw, p) = IF 2 * AtP(image, p) <= EffParams.thr2
                              THEN SaturateU8(EffParams.maxValue) ELSE 0

C2_Witness ==
    /\ call.entry = "threshold" /\ ThresholdRan /\ EffParams.invert
    /\ SaturateU8(EffParams.maxValue) # 0
    /\ \E p, q \in Points(image) :
        /\ 2 * AtP(image, p) = EffParams.thr2 /\ AtP(ret.raw, p) # 0
        /\ 2 * AtP(image, q) > EffParams.thr2 /\ AtP(ret.raw, q) = 0

\* The engine function of a method.
EngineOf(method) ==
    CASE method = "THRESHOLD" -> "threshold"
      [] method = "OTSU" -> "otsuThreshold"
      [] method \in {"ADAPTIVE_MEAN", "ADAPTIVE_GAUSSIAN"} -> "adaptiveThreshold"
      [] method = "REGION_GROWING" -> "regionGrowing"
      [] method = "WATERSHED" -> "watershed"
      [] OTHER -> "graphCut"

SupportedMethods == Methods \ {"GRAPH_CUT"}

\* The returned mask is the raw mask after opening and closing, and
\* postProcessMask was the last step of the call.
PostProcessed ==
    /\ ret.fns # << >> /\ ret.fns[Len(ret.fns)] = "postProcessMask"
    /\ ret.mask = IF IsEmpty(ret.raw) THEN EmptyMat ELSE postProcessMask(ret.raw)

\* C3: segment on a non-empty image invokes the engine of the method, for
\* every supported method, WATERSHED included, and a mask it returns is that
\* engine's raw mask after post-processing.
C3_SegmentRoutes ==
    (call.entry = "segment" /\ ~IsEmpty(image) /\ call.method \in SupportedMethods) =>
        /\ Went(EngineOf(call.method))
        /\ ret.kind = "mask" => (~IsEmpty(ret.raw) /\ PostProcessed)

\* C4 as stated: every mask an entry point returns has passed through
\* postProcessMask after the engine produced it.
C4_AlwaysPostProcessed == ret.kind = "mask" => PostProcessed

\* C4 as amended: every mask segment returns has passed through
\* postProcessMask; threshold, otsuThreshold, adaptiveThreshold and
\* regionGrowing called directly return the raw mask, and watershed returns
\* its raw mask after a closing only.
C4_SegmentPostProcesses ==
    ret.kind = "mask" =>
        CASE call.entry = "segment" -> PostProcessed
          [] call.entry = "watershed" ->
               ~Went("postProcessMask") /\ ret.mask = MorphClose(ret.raw)
          [] OTHER -> ~Went("postProcessMask") /\ ret.mask = ret.raw

C4_Witness ==
    /\ call.entry = "segment" /\ ret.kind = "mask"
    /\ PostProcessed /\ ret.mask # ret.raw

\* The value the engine of the call writes for foreground.
ForegroundValue ==
    IF call.method \in {"THRESHOLD", "ADAPTIVE_MEAN", "ADAPTIVE_GAUSSIAN"}
    THEN SaturateU8(EffParams.maxValue) ELSE 255

\* C5 as stated: every pixel of every returned mask is 0 or 255, whatever
\* maxValue is.
C5_MaskIs0Or255 ==
    ret.kind = "mask" => \A i \in 1..Len(ret.mask.px) : ret.mask.px[i] \in {0, 255}

\* C5 as amended: every pixel of a returned mask is 0 or the foreground value
\* of the call, which is maxValue saturated to 8 bits for threshold and
\* adaptiveThreshold and 255 for otsuThreshold, regionGrowing and watershed.
C5_MaskIs0OrMaxValue ==
    ret.kind = "mask" =>
        \A i \in 1..Len(ret.mask.px) : ret.mask.px[i] \in {0, ForegroundValue}

C5_Witness ==
    /\ ret.kind = "mask" /\ call.entry = "segment"
    /\ call.method \in {"THRESHOLD", "ADAPTIVE_GAUSSIAN"}
    /\ EffParams.maxValue = 100
    /\ \E i \in 1..Len(ret.mask.px) : ret.mask.px[i] = 100

\* The region growing engine grew a region from seeds inside the image.
RegionGrew ==
    /\ call.method = "REGION_GROWING" /\ Went("regionGrowing")
    /\ ret.kind = "mask" /\ ~IsEmpty(ret.raw)
    /\ SeedsInBounds(image, EffParams.seeds)

AxisAdjacent(p, q) == Abs(p[1] - q[1]) + Abs(p[2] - q[2]) = 1

\* C6: with connectivity = 4 a pixel enters the region only through an
\* axis-adjacent neighbour: every foreground pixel is a seed or has a
\* foreground neighbour above, below, left or right of it within the tolerance.
C6_Connectivity4 ==
    (RegionGrew /\ EffParams.connectivity = 4) =>
        \A p \in Points(image) :
            AtP(ret.raw, p) = 255 =>
                \/ p \in Range(EffParams.seeds)
                \/ \E q \in Points(image) :
                    /\ AxisAdjacent(p, q) /\ AtP(ret.raw, q) = 255
                    /\ Abs(AtP(image, p) - AtP(image, q)) <= EffParams.tol

\* C8: regionGrowing reached with an empty seed list fails with NoSeeds and
\* yields no mask, also through segment(REGION_GROWING) with null params.
C8_NoSeeds ==
    (call.method = "REGION_GROWING" /\ Went("regionGrowing") /\ EffParams.seeds = << >>) =>
        ret.kind = "error" /\ ErrorKind(ret) = "NoSeeds" /\ IsEmpty(ret.mask)

C8_Witness ==
    /\ call.entry = "segment" /\ call.method = "REGION_GROWING" /\ call.null
    /\ ret.kind = "error" /\ ErrorKind(ret) = "NoSeeds"
    /\ ret.err = <<MsgSegmentFailed, MsgNoSeeds>>

\* C9: every entry point called with an empty image fails with EmptyInput
\* and returns no mask.
C9_EmptyInput ==
    (~Idle /\ IsEmpty(image)) => ret.kind = "error" /\ ErrorKind(ret) = "EmptyInput"

\* blockSize is even or smaller than 3.
BadBlockSize(b) == b % 2 = 0 \/ b < 3

\* C10: adaptiveThreshold with an even or too small blockSize fails with
\* InvalidParameter and yields no mask; with an odd blockSize >= 3 it never
\* fails with InvalidParameter.
C10_BlockSize ==
    (call.method \in {"ADAPTIVE_MEAN", "ADAPTIVE_GAUSSIAN"} /\ Went("adaptiveThreshold")) =>
        IF BadBlockSize(EffParams.blockSize)
        THEN ret.kind = "error" /\ ErrorKind(ret) = "InvalidParameter" /\ IsEmpty(ret.mask)
        ELSE ErrorKind(ret) # "InvalidParameter"

C10_Witness ==
    /\ call.entry = "adaptiveThreshold" /\ EffParams.blockSize = 4
    /\ ret.kind = "error" /\ ErrorKind(ret) = "InvalidParameter"

\* The foreground set of a mask.
Foreground(m) == {p \in Points(m) : AtP(m, p) = 255}

\* Two masks of the same image, seeds and connectivity are at hand.
TwoGrown ==
    /\ prev[1].entry = "regionGrowing" /\ call.entry = "regionGrowing"
    /\ prev[2].kind = "mask" /\ ret.kind = "mask"
    /\ prev[1].params.seeds = call.params.seeds
    /\ prev[1].params.connectivity = call.params.connectivity

\* C7: regionGrowing is monotone in the tolerance: for the same image, seeds
\* and connectivity the foreground set at a smaller tolerance is a subset of
\* the foreground set at a larger one.
C7_MonotoneInTolerance ==
    (TwoGrown /\ prev[1].params.tol < call.params.tol) =>
        Foreground(prev[2].mask) \subseteq Foreground(ret.mask)

C7_Witness ==
    /\ TwoGrown
    /\ prev[1].params.tol < call.params.tol
    /\ Foreground(prev[2].mask) # Foreground(ret.mask)
    /\ Foreground(prev[2].mask) \subseteq Foreground(ret.mask)
    /\ Foreground(ret.mask) # Points(image)

-----------------------------------------------------------------------------
(* Watershed: markers.                                                     *)

\* The watershed engine was called directly.
WatershedCalled == call.entry = "watershed"

\* C11: in manual mode (useDistanceTransform = false) watershed fails with
\* NoMarkers, and yields no mask, exactly when both seed lists are empty; in
\* auto mode the seed lists are ignored (the outcome is one of the call
\* without seeds) and NoMarkers is never raised.
C11_NoMarkers ==
    WatershedCalled =>
        IF call.params.useDistanceTransform
        THEN /\ ErrorKind(ret) # "NoMarkers"
             /\ \E r \in watershed(image, DefaultWatershedParams) :
                    r.kind = ret.kind /\ r.err = ret.err /\ r.mask = ret.mask
        ELSE /\ (ErrorKind(ret) = "NoMarkers") <=>
                    (call.params.foregroundSeeds = << >> /\ call.params.backgroundSeeds = << >>)
             /\ ErrorKind(ret) = "NoMarkers" => (ret.kind = "error" /\ IsEmpty(ret.mask))

C11_Witness ==
    /\ WatershedCalled /\ ~IsEmpty(image)
    /\ ~call.params.useDistanceTransform
    /\ call.params.foregroundSeeds = << >> /\ call.params.backgroundSeeds = << >>
    /\ ret.kind = "error" /\ ErrorKind(ret) = "NoMarkers"
    /\ ret.err = <<MsgWatershedFailed, MsgNoMarkers>>

-----------------------------------------------------------------------------
(* The watershed engine called with seed points on larger images: a bright *)
(* rectangle in the top left corner of a darker image.                     *)

WsWidth == 5
WsHeight == 5

WsImages ==
    {[w |-> WsWidth, h |-> WsHeight,
      px |-> [i \in 1..(WsWidth * WsHeight) |->
                IF (i - 1) % WsWidth < a /\ (i - 1) \div WsWidth < b THEN 200 ELSE 100]]
     : a \in 0..WsWidth, b \in 0..WsHeight}

\* Seed lists: none, the centre, two opposite corners, a pixel next to a
\* corner, and a point outside the image.
WsForegroundSeeds(m) ==
    {<< >>, <<<<m.w \div 2, m.h \div 2>>>>, <<<<m.w - 1, 0>>, <<0, m.h - 1>>>>, <<<<1, 1>>>>}

WsBackgroundSeeds(m) ==
    {<< >>, <<<<m.w - 2, m.h - 2>>>>, <<<<0, 0>>>>, <<<<m.w, m.h>>>>}

WsParamsSet(m) ==
    [useDistanceTransform : BOOLEAN,
     foregroundSeeds : WsForegroundSeeds(m),
     backgroundSeeds : WsBackgroundSeeds(m)]

InitWS ==
    /\ image \in WsImages
    /\ call = NoCall
    /\ ret = NoRet
    /\ prev = <<NoCall, NoRet>>

WSCall ==
    /\ Idle
    /\ \E p \in WsParamsSet(image) :
        /\ call' = Called("watershed", "WATERSHED", FALSE, p)
        /\ ret' \in watershed(image, p)
    /\ UNCHANGED <<image, prev>>

NextWS ==
    \/ WSCall
    \/ Release

SpecWS == InitWS /\ [][NextWS]_vars

\* cv::watershed ran on a marker map.
Flooded == WatershedCalled /\ ret.kind = "mask" /\ ~IsEmpty(ret.labels)

\* The marker map handed to cv::watershed holds both classes.
MarkerMapHasBoth ==
    /\ \E i \in 1..Len(ret.markers.px) : ret.markers.px[i] = 2
    /\ \E i \in 1..Len(ret.markers.px) : ret.markers.px[i] = 1

\* C12: whenever the marker map contains at least one foreground and one
\* background marker, every pixel carries a label in {1, 2, -1} after
\* flooding; no pixel is left with label 0.
C12_PartitionComplete ==
    (Flooded /\ MarkerMapHasBoth) =>
        \A i \in 1..Len(ret.labels.px) : ret.labels.px[i] \in {1, 2, -1}

\* The pixels of the 3x3 cross around p that lie in the image.
CrossOf(m, p) ==
    {q \in Points(m) : Abs(p[1] - q[1]) + Abs(p[2] - q[2]) <= 1}

\* C13 as stated: in the mask watershed returns a pixel is 255 iff its final
\* label is 2; a pixel of label -1 or 1 is 0.
C13_MaskIffLabel2 ==
    Flooded =>
        \A p \in Points(ret.mask) : (AtP(ret.mask, p) = 255) <=> (AtP(ret.labels, p) = 2)

\* C13 as amended: in the mask watershed builds from the final labels a pixel
\* is 255 iff its label is 2 and 0 otherwise; the returned mask is the
\* closing of that mask: every pixel of label 2 is 255 in it, and any pixel
\* is 255 in it iff each pixel of its cross has a pixel of label 2 in its own
\* cross.
C13_RawIffLabel2ThenClosed ==
    Flooded =>
        /\ \A p \in Points(ret.raw) :
              AtP(ret.raw, p) = IF AtP(ret.labels, p) = 2 THEN 255 ELSE 0
        /\ \A p \in Points(ret.mask) :
              /\ AtP(ret.mask, p) \in {0, 255}
              /\ AtP(ret.labels, p) = 2 => AtP(ret.mask, p) = 255
              /\ (AtP(ret.mask, p) = 255) <=>
                    \A q \in CrossOf(ret.mask, p) :
                        \E r \in CrossOf(ret.mask, q) : AtP(ret.labels, r) = 2

C13_Witness ==
    /\ Flooded
    /\ \E p, q, r \in Points(ret.mask) :
        /\ AtP(ret.labels, p) = 2 /\ AtP(ret.mask, p) = 255
        /\ AtP(ret.labels, q) = WSHED /\ AtP(ret.mask, q) = 255
        /\ AtP(ret.labels, r) = 1 /\ AtP(ret.mask, r) = 0

-----------------------------------------------------------------------------
(* postProcessMask applied to a binary mask, and again to its result.      *)

PpWidth == 3
PpHeight == 3

BinaryMasks ==
    {[w |-> PpWidth, h |-> PpHeight, px |-> p] : p \in [1..(PpWidth * PpHeight) -> {0, 255}]}

InitPP ==
    /\ image \in BinaryMasks
    /\ call = NoCall
    /\ ret = NoRet
    /\ prev = <<NoCall, NoRet>>

PostProcess ==
    /\ Idle
    /\ call' = Called("postProcessMask", "none", FALSE, << >>)
    /\ ret' = Returned(postProcessMask(image), image, <<"postProcessMask">>)
    /\ UNCHANGED <<image, prev>>

PostProcessAgain ==
    /\ call.entry = "postProcessMask"
    /\ prev[1] = NoCall
    /\ prev' = <<call, ret>>
    /\ call' = call
    /\ ret' = Returned(postProcessMask(ret.mask), ret.mask, <<"postProcessMask">>)
    /\ UNCHANGED image

NextPP ==
    \/ PostProcess
    \/ PostProcessAgain

SpecPP == InitPP /\ [][NextPP]_vars

\* postProcessMask was applied to the result of postProcessMask.
PostProcessedTwice == call.entry = "postProcessMask" /\ prev[1].entry = "postProcessMask"

\* C14: postProcess is idempotent: post-processing an already post-processed
\* binary mask gives it back pixel for pixel, at the image borders as well.
C14_Idempotent ==
    PostProcessedTwice => (ret.raw = prev[2].mask /\ ret.mask = prev[2].mask)

C14_Witness ==
    /\ PostProcessedTwice
    /\ prev[2].mask # image
    /\ ret.mask = prev[2].mask
    /\ \E p, q \in Points(ret.mask) :
        /\ AtP(ret.mask, p) = 255 /\ AtP(ret.mask, q) = 0
        /\ OnFrame(ret.mask, p[1], p[2]) /\ OnFrame(ret.mask, q[1], q[2])

-----------------------------------------------------------------------------
(* Segmentation::getContours: cv::findContours(mask, contours, hierarchy,  *)
(* RETR_EXTERNAL, CHAIN_APPROX_SIMPLE), the border following of Suzuki and *)
(* Abe.  The mask is copied into a matrix with a one-pixel zero border and *)
(* binarized (non-zero becomes 1); the raster scan starts a border at each *)
(* 0 -> 1 step whose last labelled pixel to the left on the row is not a   *)
(* positive label, follows it, labels its pixels 2 or, where the pixel to  *)
(* the east was seen to be 0, RightLabel, and goes on scanning.            *)

\* (schar)(nbd | -128) with nbd = 2.
RightLabel == -126

Padded(mask) ==
    [w |-> mask.w + 2, h |-> mask.h + 2,
     px |-> [i \in 1..((mask.w + 2) * (mask.h + 2)) |->
               LET x == (i - 1) % (mask.w + 2)
                   y == (i - 1) \div (mask.w + 2)
               IN  IF x >= 1 /\ x <= mask.w /\ y >= 1 /\ y <= mask.h
                   THEN (IF At(mask, x - 1, y - 1) # 0 THEN 1 ELSE 0)
                   ELSE 0]]

\* CV_INIT_3X3_DELTAS: E, NE, N, NW, W, SW, S, SE.
Deltas ==
    << <<1, 0>>, <<1, -1>>, <<0, -1>>, <<-1, -1>>, <<-1, 0>>, <<-1, 1>>, <<0, 1>>, <<1, 1>> >>

Toward(p, s) == <<p[1] + Deltas[(s % 8) + 1][1], p[2] + Deltas[(s % 8) + 1][2]>>

\* do { s = (s - 1) & 7; i1 = i0 + deltas[s]; } while (*i1 == 0 && s != s_end)
RECURSIVE FcFirst(_, _, _)
FcFirst(F, i0, s) ==
    LET t == (s + 7) % 8
    IN  IF AtP(F, Toward(i0, t)) # 0 \/ t = 4 THEN t ELSE FcFirst(F, i0, t)

\* while (s < MAX_SIZE - 1) { i4 = i3 + deltas[++s]; if (*i4 != 0) break; }
RECURSIVE FcNext(_, _, _)
FcNext(F, i3, s) ==
    IF s >= 15 THEN s
    ELSE IF AtP(F, Toward(i3, s + 1)) # 0 THEN s + 1 ELSE FcNext(F, i3, s + 1)

\* The border following loop of icvFetchContour; a point is written where
\* the direction changes (CHAIN_APPROX_SIMPLE).
RECURSIVE FcFollow(_, _, _, _, _, _, _)
FcFollow(F, i0, i1, i3, s, prev_s, pts) ==
    LET found == FcNext(F, i3, s)
        i4 == Toward(i3, found)
        t == found % 8
        F2 == IF t >= 1 /\ t - 1 < s THEN SetPixel(F, i3, RightLabel)
              ELSE IF AtP(F, i3) = 1 THEN SetPixel(F, i3, 2)
              ELSE F
        pts2 == IF t # prev_s THEN Append(pts, i3) ELSE pts
    IN  IF i4 = i0 /\ i3 = i1 THEN <<F2, pts2>>
        ELSE FcFollow(F2, i0, i1, i4, (t + 4) % 8, t, pts2)

icvFetchContour(F, i0) ==
    LET s == FcFirst(F, i0, 4)
    IN  IF s = 4 THEN <<SetPixel(F, i0, RightLabel), <<i0>>>>
        ELSE FcFollow(F, i0, Toward(i0, s), i0, s, (s + 4) % 8, << >>)

\* mode == RETR_EXTERNAL: a border is skipped when img0[lnbd] > 0.
IsExternalMutAny(F, lnbd) == TRUE

IsExternal(F, lnbd) == AtP(F, lnbd) <= 0

\* p & -2 for the values a pixel takes.
HasLabel(p) == p # 0 /\ p # 1

\* The raster scan of cvFindNextContour, rows 1 .. h - 2 of the padded
\* matrix; acc collects the contours in padded coordinates.
RECURSIVE FcScan(_, _, _, _, _, _)
FcScan(F, x, y, prevp, lnbdx, acc) ==
    IF y >= F.h - 1 THEN acc
    ELSE IF x >= F.w - 1 THEN FcScan(F, 1, y + 1, 0, 0, acc)
    ELSE LET p == At(F, x, y)
         IN  IF p = prevp THEN FcScan(F, x + 1, y, prevp, lnbdx, acc)
             ELSE IF prevp = 0 /\ p = 1
             THEN IF IsExternal(F, <<lnbdx, y>>)
                  THEN LET got == icvFetchContour(F, <<x, y>>)
                       IN  FcScan(got[1], x + 1, y, At(got[1], x, y), lnbdx,
                                  Append(acc, got[2]))
                  ELSE FcScan(F, x + 1, y, p, lnbdx, acc)
             ELSE IF p # 0 \/ prevp < 1
             THEN FcScan(F, x + 1, y, p, IF HasLabel(p) THEN x ELSE lnbdx, acc)
             ELSE FcScan(F, x + 1, y, p, IF HasLabel(prevp) THEN x - 1 ELSE lnbdx, acc)

\* The contours in the coordinates of the mask (offset (-1, -1)); each
\* contour is linked in front of the ones found before it.
cvFindContours(mask) ==
    LET found == FcScan(Padded(mask), 1, 1, 0, 0, << >>)
    IN  [k \in 1..Len(found) |->
            LET c == found[Len(found) + 1 - k]
            IN  [j \in 1..Len(c) |-> <<c[j][1] - 1, c[j][2] - 1>>]]

getContours(mask) ==
    LET fns == <<"getContours", "cv::findContours">>
        r == Returned(EmptyMat, EmptyMat, fns)
        found == [r EXCEPT !.kind = "contours", !.out = cvFindContours(mask)]
    IN  IF IsEmpty(mask) THEN {Thrown(<<MsgCvEmpty>>, EmptyMat, fns), found} ELSE {found}

-----------------------------------------------------------------------------
(* getContours called on masks: the one-pixel ring along the image edge,   *)
(* present or not, around any pattern in the 3x3 window at (1, 1).         *)

GcWidth == 5
GcHeight == 5

GcWindow == (1..3) \X (1..3)

GcMasks ==
    {[w |-> GcWidth, h |-> GcHeight,
      px |-> [i \in 1..(GcWidth * GcHeight) |->
                LET x == (i - 1) % GcWidth
                    y == (i - 1) \div GcWidth
                IN  IF \/ ring /\ (x = 0 \/ y = 0 \/ x = GcWidth - 1 \/ y = GcHeight - 1)
                       \/ <<x, y>> \in win
                    THEN 255 ELSE 0]]
     : ring \in BOOLEAN, win \in SUBSET GcWindow}

InitGC ==
    /\ image \in GcMasks
    /\ call = NoCall
    /\ ret = NoRet
    /\ prev = <<NoCall, NoRet>>

CallGetContours ==
    /\ Idle
    /\ call' = Called("getContours", "none", FALSE, << >>)
    /\ ret' \in getContours(image)
    /\ UNCHANGED <<image, prev>>

NextGC ==
    \/ CallGetContours
    \/ Release

SpecGC == InitGC /\ [][NextGC]_vars

\* The foreground pixels of a mask and their 8-connected components.
NonZero(m) == {p \in Points(m) : AtP(m, p) # 0}

Adjacent8(p, q) == p # q /\ Abs(p[1] - q[1]) <= 1 /\ Abs(p[2] - q[2]) <= 1

RECURSIVE Closure8(_, _)
Closure8(m, S) ==
    LET T == S \cup {q \in NonZero(m) : \E r \in S : Adjacent8(q, r)}
    IN  IF T = S THEN S ELSE Closure8(m, T)

Components(m) == {Closure8(m, {p}) : p \in NonZero(m)}

\* The background that is 4-connected to the outside of the mask.
RECURSIVE Closure4(_, _)
Closure4(m, S) ==
    LET T == S \cup {q \in Points(m) \ NonZero(m) : \E r \in S : AxisAdjacent(q, r)}
    IN  IF T = S THEN S ELSE Closure4(m, T)

OuterBackground(m) ==
    Closure4(m, {q \in Points(m) \ NonZero(m) : OnFrame(m, q[1], q[2])})

\* A component is enclosed when none of its pixels lies on the edge of the
\* mask or next to the outer background: it lies in a hole of another one.
Enclosed(m, C) ==
    \A p \in C :
        /\ ~OnFrame(m, p[1], p[2])
        /\ \A q \in OuterBackground(m) : ~AxisAdjacent(p, q)

BoundingBox(S) ==
    <<SetMin({p[1] : p \in S}), SetMin({p[2] : p \in S}),
      SetMax({p[1] : p \in S}), SetMax({p[2] : p \in S})>>

GotContours == call.entry = "getContours" /\ ret.kind = "contours"

\* The contours that trace component C: their points lie in C and span its
\* bounding box.
ContoursOf(C) ==
    {k \in 1..Len(ret.out) :
        /\ ret.out[k] # << >>
        /\ Range(ret.out[k]) \subseteq C
        /\ BoundingBox(Range(ret.out[k])) = BoundingBox(C)}

\* C15 as stated: getContours returns exactly one contour for each
\* 8-connected foreground component, also for a component inside a hole of
\* another one, no contour for a hole, and the empty list without error for
\* an all-background mask.
C15_OnePerComponent ==
    call.entry = "getContours" =>
        /\ GotContours
        /\ \A C \in Components(image) : Cardinality(ContoursOf(C)) = 1
        /\ Len(ret.out) = Cardinality(Components(image))

\* C15 as amended: getContours returns exactly one contour for each
\* 8-connected foreground component that is not enclosed in a hole of another
\* component, no contour for an enclosed component or for a hole, and the
\* empty list without error for an all-background mask.
C15_OnePerOuterComponent ==
    call.entry = "getContours" =>
        /\ GotContours
        /\ \A C \in Components(image) :
              Cardinality(ContoursOf(C)) = IF Enclosed(image, C) THEN 0 ELSE 1
        /\ Len(ret.out) = Cardinality({C \in Components(image) : ~Enclosed(image, C)})

C15_Witness ==
    /\ GotContours
    /\ Len(ret.out) = 1
    /\ \E C, D \in Components(image) :
        /\ Enclosed(image, C) /\ ~Enclosed(image, D)
        /\ ContoursOf(C) = {} /\ ContoursOf(D) = {1}
        /\ \E q \in Points(image) \ NonZero(image) : q \notin OuterBackground(image)

-----------------------------------------------------------------------------
(* Segmentation::drawSegmentation.  alpha is a double in the code; here it *)
(* is given in quarters (alpha4 = 4 * alpha), which cv::addWeighted        *)
(* computes exactly.  A pixel of a 3-channel matrix is <<b, g, r>>.        *)

\* saturate_cast<uchar>(a * alpha + b * beta), weights in quarters.
cvAddWeightedMutSwapped(a, alpha4, b, beta4) ==
    LET num == a * beta4 + b * alpha4
    IN  IF num <= 0 THEN 0 ELSE SaturateU8(RoundHalfEven(num, 4))

cvAddWeighted(a, alpha4, b, beta4) ==
    LET num == a * alpha4 + b * beta4
    IN  IF num <= 0 THEN 0 ELSE SaturateU8(RoundHalfEven(num, 4))

\* cv::cvtColor(input, result, cv::COLOR_GRAY2BGR)
GrayToBGR(input) ==
    [input EXCEPT !.px = [i \in DOMAIN input.px |-> <<input.px[i], input.px[i], input.px[i]>>]]

\* cv::Scalar(0, 0, 255)
HighlightColour == <<0, 0, 255>>

drawSegmentation(input, mask, alpha4) ==
    LET fns == <<"drawSegmentation", "cv::cvtColor", "cv::addWeighted">>
    IN  IF IsEmpty(input)
        THEN {Thrown(<<MsgCvEmpty>>, EmptyMat, <<"drawSegmentation", "cv::cvtColor">>)}
        ELSE LET result == GrayToBGR(input)
                 overlay == [result EXCEPT !.px = [i \in DOMAIN result.px |->
                                IF mask.px[i] # 0 THEN HighlightColour ELSE result.px[i]]]
                 blended == [result EXCEPT !.px = [i \in DOMAIN result.px |->
                                [c \in 1..3 |-> cvAddWeighted(overlay.px[i][c], alpha4,
                                                              result.px[i][c], 4 - alpha4)]]]
                 r == Returned(EmptyMat, EmptyMat, fns)
             IN  {[r EXCEPT !.kind = "image", !.out = blended]}

-----------------------------------------------------------------------------
(* The matrices and vectors of each function and what becomes of them:     *)
(* <<"copy", d, s>> gives d a buffer of its own filled from s (clone,      *)
(* cvtColor, zeros-then-fill, a std::vector copy), <<"fresh", d, "">> a    *)
(* new buffer, <<"alias", d, s>> makes d share the buffer of s (cv::Mat    *)
(* assignment), <<"write", d, "">> writes through d in place.  The         *)
(* caller's objects are "arg:input", "arg:mask" and "arg:params".          *)

prepareImageBuffers == << <<"copy", "processed", "arg:input">> >>

thresholdBuffers == prepareImageBuffers \o << <<"fresh", "result", "">> >>

otsuThresholdBuffers == prepareImageBuffers \o << <<"fresh", "result", "">> >>

adaptiveThresholdBuffers == prepareImageBuffers \o << <<"fresh", "result", "">> >>

regionGrowingBuffers ==
    prepareImageBuffers \o
    << <<"fresh", "mask", "">>, <<"copy", "seeds", "arg:params">>,
       <<"write", "mask", "">>, <<"alias", "result", "mask">> >>

watershedBuffers ==
    prepareImageBuffers \o
    << <<"fresh", "markers", "">>, <<"fresh", "markers", "">>, <<"write", "markers", "">>,
       <<"copy", "inputBGR", "arg:input">>, <<"write", "markers", "">>,
       <<"fresh", "result", "">>, <<"write", "result", "">> >>

postProcessMaskBuffers(arg) ==
    << <<"copy", "processed", arg>>, <<"write", "processed", "">>,
       <<"write", "processed", "">> >>

segmentBuffers(method) ==
    (CASE method = "THRESHOLD" -> thresholdBuffers
       [] method = "OTSU" -> otsuThresholdBuffers
       [] method \in {"ADAPTIVE_MEAN", "ADAPTIVE_GAUSSIAN"} -> adaptiveThresholdBuffers
       [] method = "REGION_GROWING" -> regionGrowingBuffers
       [] OTHER -> << <<"fresh", "result", "">> >>)
    \o postProcessMaskBuffers("result")

\* cv::findContours works on a bordered copy of the mask.
getContoursBuffersMutInPlace ==
    << <<"alias", "image", "arg:mask">>, <<"write", "image", "">>,
       <<"fresh", "contours", "">> >>

getContoursBuffers ==
    << <<"copy", "image", "arg:mask">>, <<"write", "image", "">>,
       <<"fresh", "contours", "">> >>

drawSegmentationBuffers ==
    << <<"copy", "result", "arg:input">>, <<"copy", "overlay", "result">>,
       <<"write", "overlay", "">>, <<"write", "result", "">> >>

BuffersOf(entry, method) ==
    CASE entry = "segment" -> segmentBuffers(method)
      [] entry = "threshold" -> thresholdBuffers
      [] entry = "otsuThreshold" -> otsuThresholdBuffers
      [] entry = "adaptiveThreshold" -> adaptiveThresholdBuffers
      [] entry = "regionGrowing" -> regionGrowingBuffers
      [] entry = "watershed" -> watershedBuffers
      [] entry = "postProcessMask" -> postProcessMaskBuffers("arg:mask")
      [] entry = "getContours" -> getContoursBuffers
      [] OTHER -> drawSegmentationBuffers

CallerObjects == {"arg:input", "arg:mask", "arg:params"}

\* The caller's objects a function writes to: owner maps each name to the
\* caller's object whose buffer it shares, or to "local".
RECURSIVE WrittenBy(_, _, _)
WrittenBy(prog, owner, written) ==
    IF prog = << >> THEN written \ {"local"}
    ELSE LET st == Head(prog)
             Bind(o) == [v \in DOMAIN owner \cup {st[2]} |-> IF v = st[2] THEN o ELSE owner[v]]
         IN  CASE st[1] = "alias" -> WrittenBy(Tail(prog), Bind(owner[st[3]]), written)
               [] st[1] = "write" -> WrittenBy(Tail(prog), owner, written \cup {owner[st[2]]})
               [] OTHER -> WrittenBy(Tail(prog), Bind("local"), written)

Written(entry, method) ==
    WrittenBy(BuffersOf(entry, method), [v \in CallerObjects |-> v], {})

\* A matrix whose buffer was written over, and a parameter struct likewise.
OverwrittenMat(m) == [m EXCEPT !.px = [i \in DOMAIN m.px |-> 255 - m.px[i]]]

OverwrittenParams == <<"overwritten">>

\* The caller's objects once the call is over.
AfterCall(entry, method, before) ==
    LET written == Written(entry, method)
    IN  [image |-> IF "arg:input" \in written THEN OverwrittenMat(before.image)
                   ELSE before.image,
         mask |-> IF "arg:mask" \in written THEN OverwrittenMat(before.mask)
                  ELSE before.mask,
         params |-> IF "arg:params" \in written THEN OverwrittenParams ELSE before.params]

-----------------------------------------------------------------------------
(* Every operation of the class called by a caller that owns an image, a   *)
(* mask and a parameter struct; prev holds these objects as they were      *)
(* passed and as they are once the call is over.                           *)

\* Masks of the size of the image: all background, the pixels above 150,
\* all foreground.
ApiMasks(m) ==
    IF IsEmpty(m) THEN {EmptyMat}
    ELSE {Zeros(m), cvThreshold(m, 300, 255, FALSE),
          [m EXCEPT !.px = [i \in DOMAIN m.px |-> 255]]}

\* alpha in quarters: -0.5, 0, 0.5 (the default), 1, 1.5.
ApiAlphas == {-2, 0, 2, 4, 6}

ApiReturn(entry, method, null, params, mask, r) ==
    LET before == [image |-> image, mask |-> mask, params |-> params]
        after == AfterCall(entry, method, before)
    IN  /\ call' = Called(entry, method, null, params)
        /\ ret' = r
        /\ image' = after.image
        /\ prev' = <<before, after>>

InitAPI ==
    /\ image \in Images
    /\ call = NoCall
    /\ ret = NoRet
    /\ prev = <<NoCall, NoRet>>

ApiSegment ==
    /\ Idle
    /\ \E method \in Methods :
        \/ \E p \in SegmentParams(image, method) :
              \E r \in segment(image, method, FALSE, p) :
                 ApiReturn("segment", method, FALSE, p, EmptyMat, r)
        \/ \E r \in segment(image, method, TRUE, << >>) :
              ApiReturn("segment", method, TRUE, << >>, EmptyMat, r)

ApiThreshold ==
    /\ Idle
    /\ \E p \in ThresholdParamsSet :
          \E r \in threshold(image, p) :
             ApiReturn("threshold", "THRESHOLD", FALSE, p, EmptyMat, r)

ApiOtsuThreshold ==
    /\ Idle
    /\ \E r \in otsuThreshold(image) :
          ApiReturn("otsuThreshold", "OTSU", FALSE, << >>, EmptyMat, r)

ApiAdaptiveThreshold ==
    /\ Idle
    /\ \E p \in AdaptiveParamsSet :
          \E r \in adaptiveThreshold(image, p) :
             ApiReturn("adaptiveThreshold", "ADAPTIVE_GAUSSIAN", FALSE, p, EmptyMat, r)

ApiRegionGrowing ==
    /\ Idle
    /\ \E p \in RegionGrowingParamsSet(image) :
          \E r \in regionGrowing(image, p) :
             ApiReturn("regionGrowing", "REGION_GROWING", FALSE, p, EmptyMat, r)

ApiWatershed ==
    /\ Idle
    /\ \E p \in WatershedParamsSet(image) :
          \E r \in watershed(image, p) :
             ApiReturn("watershed", "WATERSHED", FALSE, p, EmptyMat, r)

ApiPostProcessMask ==
    /\ Idle
    /\ \E m \in ApiMasks(image) :
          \E r \in (IF IsEmpty(m) THEN cvOnEmpty(<<"postProcessMask">>)
                    ELSE {Returned(postProcessMask(m), m, <<"postProcessMask">>)}) :
             ApiReturn("postProcessMask", "none", FALSE, << >>, m, r)

ApiGetContours ==
    /\ Idle
    /\ \E m \in ApiMasks(image) :
          \E r \in getContours(m) :
             ApiReturn("getContours", "none", FALSE, << >>, m, r)

ApiDrawSegmentation ==
    /\ Idle
    /\ \E m \in ApiMasks(image), a \in ApiAlphas :
          \E r \in drawSegmentation(image, m, a) :
             ApiReturn("drawSegmentation", "none", FALSE, [alpha4 |-> a], m, r)

ApiRelease ==
    /\ ~Idle
    /\ call' = NoCall
    /\ ret' = NoRet
    /\ prev' = <<NoCall, NoRet>>
    /\ UNCHANGED image

NextAPI ==
    \/ ApiSegment
    \/ ApiThreshold
    \/ ApiOtsuThreshold
    \/ ApiAdaptiveThreshold
    \/ ApiRegionGrowing
    \/ ApiWatershed
    \/ ApiPostProcessMask
    \/ ApiGetContours
    \/ ApiDrawSegmentation
    \/ ApiRelease

SpecAPI == InitAPI /\ [][NextAPI]_vars

\* drawSegmentation was called; the image and mask it was given.
DrawCalled == call.entry = "drawSegmentation"

Drew == DrawCalled /\ ret.kind = "image"

GrayPixel(v) == <<v, v, v>>

\* C16: with alpha = 0 the result of drawSegmentation is the input converted
\* to BGR, pixel for pixel, for every mask; with alpha = 1 every foreground
\* pixel of the mask has exactly the highlight colour and every background
\* pixel is the input pixel.
C16_BlendEndpoints ==
    Drew =>
        /\ call.params.alpha4 = 0 =>
              \A i \in 1..Len(ret.out.px) : ret.out.px[i] = GrayPixel(prev[1].image.px[i])
        /\ call.params.alpha4 = 4 =>
              \A i \in 1..Len(ret.out.px) :
                 ret.out.px[i] = IF prev[1].mask.px[i] # 0 THEN <<0, 0, 255>>
                                 ELSE GrayPixel(prev[1].image.px[i])

C16_Witness ==
    /\ Drew /\ call.params.alpha4 = 4
    /\ \E i, j \in 1..Len(ret.out.px) :
        /\ prev[1].mask.px[i] # 0 /\ ret.out.px[i] = <<0, 0, 255>>
        /\ prev[1].mask.px[j] = 0 /\ ret.out.px[j] = GrayPixel(prev[1].image.px[j])

\* C17: drawSegmentation called with alpha < 0 or alpha > 1 fails with
\* InvalidParameter and returns no image.
C17_AlphaRange ==
    (DrawCalled /\ (call.params.alpha4 < 0 \/ call.params.alpha4 > 4)) =>
        ret.kind = "error" /\ ErrorKind(ret) = "InvalidParameter" /\ ret.out = << >>

\* C19: no operation modifies its inputs: once a call is over, whether it
\* returned or failed, the caller's image, parameter struct (seed lists
\* included) and input mask are what they were when the call was made.
C19_InputsUnchanged ==
    ~Idle =>
        /\ prev[2].image = prev[1].image
        /\ prev[2].mask = prev[1].mask
        /\ prev[2].params = prev[1].params
        /\ image = prev[1].image

C19_Witness ==
    /\ call.entry = "getContours" /\ ret.kind = "contours" /\ Len(ret.out) = 1
    /\ \E i \in 1..Len(prev[1].mask.px) : prev[1].mask.px[i] # 0
    /\ prev[2].mask = prev[1].mask

-----------------------------------------------------------------------------
\* regionGrowing returned a mask.
RegionGrown == call.entry = "regionGrowing" /\ ret.kind = "mask"

SeedSet(seeds) == {seeds[k] : k \in 1..Len(seeds)}

\* The pixels joined to S by a path of 8-neighbours in which consecutive
\* pixels differ in intensity by at most tol.
RECURSIVE ReachClosure(_, _, _)
ReachClosure(m, S, tol) ==
    LET more == {q \in Points(m) \ S :
                   \E p \in S : Adjacent8(p, q) /\ Abs(AtP(m, p) - AtP(m, q)) <= tol}
    IN  IF more = {} THEN S ELSE ReachClosure(m, S \cup more, tol)

\* C20: regionGrowing with in-bounds seeds returns the reachability closure
\* of the seeds: a pixel is 255 iff it is a seed or a path of neighbouring
\* pixels leads to it from a seed with every consecutive pair differing by at
\* most the tolerance, every other pixel is 0, and every seed is 255
\* whatever the tolerance.
C20_ReachabilityClosure ==
    (RegionGrown /\ SeedsInBounds(image, call.params.seeds)) =>
        /\ \A p \in Points(image) :
              AtP(ret.mask, p) =
                 IF p \in ReachClosure(image, SeedSet(call.params.seeds), call.params.tol)
                 THEN 255 ELSE 0
        /\ \A s \in SeedSet(call.params.seeds) : AtP(ret.mask, s) = 255

\* A pixel reached through a chain although it differs from every seed by
\* more than the tolerance.
C20_Witness ==
    /\ RegionGrown /\ SeedsInBounds(image, call.params.seeds)
    /\ \E q \in Points(image) :
        /\ AtP(ret.mask, q) = 255
        /\ \A s \in SeedSet(call.params.seeds) :
              Abs(AtP(image, s) - AtP(image, q)) > call.params.tol

-----------------------------------------------------------------------------
(* Two callers run regionGrowing at the same time, each on an image of its *)
(* own, and each repeats its call once.  A step is what one caller does    *)
(* between two points where the other may run: entering the function       *)
(* (lines 125-133), one turn of the loop over the seeds (134-138, 171),    *)
(* one turn of the loop over the frontier (140-168).  Here image, call and *)
(* ret hold one value per caller, and prev the locals of the two calls.    *)

ParCallers == {1, 2}

\* Images whose first pixel is 10 and whose last pixel is 13.
ParImages == {m \in RGImages : m.px[1] = 10 /\ m.px[Len(m.px)] = 13}

ParParamsSet(m) == [seeds : RGSeedLists(m), tol : {1, 2}, connectivity : {8}]

\* The frontier a call works on: "std::vector<cv::Point> queue" is a local
\* of the call, the class has no data members.
QueueOfMutMember(t) == 1

QueueOf(t) == t

Other(t) == 3 - t

InFlight(t) == prev.pc[t] \in {"seeds", "grow"}

\* prev with the locals of caller t updated; overlap records that a caller
\* took a step of its call while the other caller was inside a call too.
ParLocals(t, pc, mask, seeds, queue, first) ==
    [pc |-> [prev.pc EXCEPT ![t] = pc],
     mask |-> [prev.mask EXCEPT ![t] = mask],
     seeds |-> [prev.seeds EXCEPT ![t] = seeds],
     queue |-> [prev.queue EXCEPT ![QueueOf(t)] = queue],
     first |-> [prev.first EXCEPT ![t] = first],
     overlap |-> prev.overlap \/ (InFlight(t) /\ InFlight(Other(t)))]

InitPar ==
    /\ image \in ParImages \X ParImages
    /\ call = <<NoCall, NoCall>>
    /\ ret = <<NoRet, NoRet>>
    /\ prev = [pc |-> <<"idle", "idle">>, mask |-> <<EmptyMat, EmptyMat>>,
               seeds |-> << << >>, << >> >>, queue |-> << << >>, << >> >>,
               first |-> <<NoRet, NoRet>>, overlap |-> FALSE]

\* Lines 125-133: processed and mask are new matrices, the seeds are copied.
ParEnter(t, p, first) ==
    /\ call' = [call EXCEPT ![t] = Called("regionGrowing", "REGION_GROWING", FALSE, p)]
    /\ IF p.seeds = << >>
       THEN /\ ret' = [ret EXCEPT ![t] = Thrown(<<MsgNoSeeds>>, EmptyMat,
                                                <<"regionGrowing", "prepareImage">>)]
            /\ prev' = ParLocals(t, "done", prev.mask[t], << >>,
                                 prev.queue[QueueOf(t)], first)
       ELSE /\ ret' = [ret EXCEPT ![t] = NoRet]
            /\ prev' = ParLocals(t, "seeds", Zeros(prepareImage(image[t])), p.seeds,
                                 prev.queue[QueueOf(t)], first)
    /\ UNCHANGED image

ParCall(t) ==
    /\ prev.pc[t] = "idle"
    /\ \E p \in ParParamsSet(image[t]) : ParEnter(t, p, NoRet)

ParRepeat(t) ==
    /\ prev.pc[t] = "done"
    /\ prev.first[t] = NoRet
    /\ ParEnter(t, call[t].params, ret[t])

\* Lines 134-138 and 171.
ParSeed(t) ==
    /\ prev.pc[t] = "seeds"
    /\ LET seeds == prev.seeds[t]
           mask == prev.mask[t]
       IN  IF seeds = << >>
           THEN /\ ret' = [ret EXCEPT ![t] = Returned(mask, mask,
                                                      <<"regionGrowing", "prepareImage">>)]
                /\ prev' = ParLocals(t, "done", mask, seeds, prev.queue[QueueOf(t)],
                                     prev.first[t])
           ELSE /\ ret' = ret
                /\ prev' = IF AtP(mask, Head(seeds)) = 255
                           THEN ParLocals(t, "seeds", mask, Tail(seeds),
                                          prev.queue[QueueOf(t)], prev.first[t])
                           ELSE ParLocals(t, "grow", mask, Tail(seeds),
                                          <<Head(seeds)>>, prev.first[t])
    /\ UNCHANGED <<image, call>>

\* Lines 140-168.
ParGrow(t) ==
    /\ prev.pc[t] = "grow"
    /\ LET queue == prev.queue[QueueOf(t)]
           mask == prev.mask[t]
           current == queue[Len(queue)]
           rest == SubSeq(queue, 1, Len(queue) - 1)
           claimed == SetPixel(mask, current, 255)
       IN  prev' = IF queue = << >>
                   THEN ParLocals(t, "seeds", mask, prev.seeds[t], queue, prev.first[t])
                   ELSE IF AtP(mask, current) = 255
                   THEN ParLocals(t, "grow", mask, prev.seeds[t], rest, prev.first[t])
                   ELSE ParLocals(t, "grow", claimed, prev.seeds[t],
                                  rest \o Admitted(prepareImage(image[t]), claimed, current,
                                                   call[t].params.tol),
                                  prev.first[t])
    /\ UNCHANGED <<image, call, ret>>

NextPar ==
    \/ \E t \in ParCallers : ParCall(t)
    \/ \E t \in ParCallers : ParRepeat(t)
    \/ \E t \in ParCallers : ParSeed(t)
    \/ \E t \in ParCallers : ParGrow(t)

SpecPar == InitPar /\ [][NextPar]_vars

\* C18: the calls share no mutable state: however the steps of two calls on
\* independent images are interleaved, each call returns exactly what
\* regionGrowing returns for its image and parameters when run alone, and a
\* repeated call with the same image and parameters returns the same mask.
C18_NoSharedState ==
    \A t \in ParCallers :
        ret[t] # NoRet =>
            /\ ret[t] \in regionGrowing(image[t], call[t].params)
            /\ prev.first[t] # NoRet => ret[t] = prev.first[t]

\* Both callers have returned from their repeated calls, on different images
\* with different masks, after steps taken while both calls were running.
C18_Witness ==
    /\ prev.overlap
    /\ image[1] # image[2]
    /\ \A t \in ParCallers :
          ret[t] # NoRet /\ prev.first[t] # NoRet /\ ret[t].kind = "mask"
    /\ ret[1].mask # ret[2].mask

-----------------------------------------------------------------------------
\* The growth of regionGrowing with the frontier used as a queue: the pixel
\* popped is the oldest one instead of the newest.
RECURSIVE GrowFifo(_, _, _, _)
GrowFifo(processed, mask, queue, tol) ==
    IF queue = << >> THEN mask
    ELSE IF AtP(mask, Head(queue)) = 255
         THEN GrowFifo(processed, mask, Tail(queue), tol)
         ELSE LET claimed == SetPixel(mask, Head(queue), 255)
              IN  GrowFifo(processed, claimed,
                           Tail(queue) \o Admitted(processed, claimed, Head(queue), tol), tol)

RECURSIVE GrowSeedsFifo(_, _, _, _)
GrowSeedsFifo(processed, mask, seeds, tol) ==
    IF seeds = << >> THEN mask
    ELSE GrowSeedsFifo(processed,
                       IF AtP(mask, Head(seeds)) = 255 THEN mask
                       ELSE GrowFifo(processed, mask, <<Head(seeds)>>, tol),
                       Tail(seeds), tol)

\* The rearrangements of a list.
Rearranged(seq) ==
    {[k \in 1..Len(seq) |-> seq[f[k]]] :
        f \in {g \in [1..Len(seq) -> 1..Len(seq)] :
                 \A a, b \in 1..Len(seq) : g[a] = g[b] => a = b}}

\* The mask regionGrowing returns for one seed alone.
GrownAlone(m, seed, tol) == GrowSeeds(prepareImage(m), Zeros(m), <<seed>>, tol)

\* C21: the mask of regionGrowing does not depend on the order of visits:
\* every rearrangement of the seed list gives the mask returned, popping the
\* oldest frontier pixel instead of the newest gives it too, and it is the
\* union of the masks grown from each seed alone.
C21_OrderIndependent ==
    (RegionGrown /\ SeedsInBounds(image, call.params.seeds)) =>
        /\ \A seeds \in Rearranged(call.params.seeds) :
            /\ \A r \in regionGrowing(image, [call.params EXCEPT !.seeds = seeds]) :
                  r.kind = "mask" /\ r.mask = ret.mask
            /\ GrowSeedsFifo(prepareImage(image), Zeros(image), seeds, call.params.tol)
                  = ret.mask
        /\ \A p \in Points(image) :
              AtP(ret.mask, p) = 255 <=>
                 \E s \in SeedSet(call.params.seeds) :
                    AtP(GrownAlone(image, s, call.params.tol), p) = 255

\* Two seeds whose regions are disjoint, and a pixel in neither.
C21_Witness ==
    /\ RegionGrown /\ Len(call.params.seeds) = 2
    /\ LET a == GrownAlone(image, call.params.seeds[1], call.params.tol)
           b == GrownAlone(image, call.params.seeds[2], call.params.tol)
       IN  /\ AtP(a, call.params.seeds[2]) = 0
           /\ AtP(b, call.params.seeds[1]) = 0
           /\ \E p \in Points(image) : AtP(ret.mask, p) = 0
           /\ AtP(ret.mask, call.params.seeds[1]) = 255
           /\ AtP(ret.mask, call.params.seeds[2]) = 255

-----------------------------------------------------------------------------
\* watershed was called in auto mode on an image with pixels.
AutoModeCalled ==
    WatershedCalled /\ call.params.useDistanceTransform /\ ~IsEmpty(image)

\* C22: in auto mode a marker map is handed to flooding whose labels are 2
\* (normalized distance > 0.3), 1 (outside the dilated Otsu foreground) and
\* 0 (all other pixels), and every pixel labelled 2 in it is foreground in
\* the mask returned.
C22_AutoMarkers ==
    AutoModeCalled =>
        /\ ret.kind = "mask"
        /\ ~IsEmpty(ret.markers)
        /\ \A i \in 1..Len(ret.markers.px) :
            /\ ret.markers.px[i] \in {0, 1, 2}
            /\ ret.markers.px[i] = 2 => ret.mask.px[i] = 255

-----------------------------------------------------------------------------
\* The plain mean of the n x n neighbourhood of (x, y), border replicated:
\* the statistic of cv::ADAPTIVE_THRESH_MEAN_C.
PlainMean(src, n, x, y) ==
    LET half == (n - 1) \div 2
        RowSum(yy) ==
            SeqSum([a \in 1..n |-> At(src, Clamp(x + a - 1 - half, 0, src.w - 1), yy)])
        acc == SeqSum([b \in 1..n |-> RowSum(Clamp(y + b - 1 - half, 0, src.h - 1))])
    IN  SaturateU8(RoundHalfEven(acc, n * n))

\* The mask of an adaptive threshold against the plain mean minus C.
PlainMeanThreshold(src, params) ==
    [src EXCEPT !.px = [i \in DOMAIN src.px |->
        IF (src.px[i] - PlainMean(src, params.blockSize, XOf(src, i), YOf(src, i))
               > -params.C) # params.invert
        THEN SaturateU8(params.maxValue) ELSE 0]]

\* C23: segment with ADAPTIVE_MEAN binarizes each pixel against the plain
\* mean of its blockSize x blockSize neighbourhood minus C (ADAPTIVE_GAUSSIAN
\* against the Gaussian-weighted mean): the mask the engine produced for
\* ADAPTIVE_MEAN, before post-processing, is the plain-mean threshold.
C23_MeanSelectsPlainMean ==
    (/\ call.entry = "segment" /\ call.method = "ADAPTIVE_MEAN" /\ ~call.null
     /\ ret.kind = "mask" /\ ~IsEmpty(ret.raw)) =>
        ret.raw = PlainMeanThreshold(image, call.params)

-----------------------------------------------------------------------------
(* postProcessMask on masks with small artifacts: any pattern in the 3x3   *)
(* window at (1,1), with or without the top row and left column, with or   *)
(* without the bottom-right pixel; and the masks of one pixel.             *)

PhMasks ==
    {[w |-> GcWidth, h |-> GcHeight,
      px |-> [i \in 1..(GcWidth * GcHeight) |->
                LET x == (i - 1) % GcWidth
                    y == (i - 1) \div GcWidth
                IN  IF \/ band /\ (x = 0 \/ y = 0)
                       \/ corner /\ x = GcWidth - 1 /\ y = GcHeight - 1
                       \/ <<x, y>> \in win
                    THEN 255 ELSE 0]]
       : win \in SUBSET GcWindow, band \in BOOLEAN, corner \in BOOLEAN}
    \cup {[w |-> 1, h |-> 1, px |-> <<v>>] : v \in {0, 255}}

InitPH ==
    /\ image \in PhMasks
    /\ call = NoCall
    /\ ret = NoRet
    /\ prev = <<NoCall, NoRet>>

NextPH ==
    \/ PostProcess
    \/ Release

SpecPH == InitPH /\ [][NextPH]_vars

MaskPostProcessed == call.entry = "postProcessMask" /\ ret.kind = "mask"

\* A foreground pixel with no other foreground pixel under the structuring
\* element placed on it.
IsolatedPixel(m, p) ==
    AtP(m, p) = 255 /\ \A q \in CrossOf(m, p) \ {p} : AtP(m, q) = 0

\* A background pixel off the frame whose eight neighbours are foreground.
SinglePixelHole(m, p) ==
    /\ AtP(m, p) = 0
    /\ ~OnFrame(m, p[1], p[2])
    /\ \A q \in Points(m) : Adjacent8(p, q) => AtP(m, q) = 255

\* Pixel q lies under a structuring element that fits into the foreground.
CoveredByElement(m, q) ==
    \E r \in CrossOf(m, q) : \A t \in CrossOf(m, r) : AtP(m, t) = 255

\* C24 as stated: an isolated foreground pixel is background in the result,
\* and a single background pixel inside an otherwise solid foreground region
\* is foreground in the result.
C24_RemovesArtifacts ==
    MaskPostProcessed =>
        \A p \in Points(image) :
            /\ IsolatedPixel(image, p) => AtP(ret.mask, p) = 0
            /\ SinglePixelHole(image, p) => AtP(ret.mask, p) = 255

\* C24 amended: an isolated foreground pixel of a mask of more than one
\* pixel is background in the result; a single-pixel hole is foreground in
\* the result when the pixels left, right, above and below it each lie under
\* a structuring element that fits into the foreground (the region around
\* the hole survives the opening).
C24_RemovesArtifactsOfSurvivingRegions ==
    MaskPostProcessed =>
        \A p \in Points(image) :
            /\ (IsolatedPixel(image, p) /\ CrossOf(image, p) # {p}) => AtP(ret.mask, p) = 0
            /\ (/\ SinglePixelHole(image, p)
                /\ \A q \in CrossOf(image, p) \ {p} : CoveredByElement(image, q))
                  => AtP(ret.mask, p) = 255

\* A mask with an isolated pixel that is removed and a hole that is filled,
\* while the rest of the region is kept.
C24_Witness ==
    /\ MaskPostProcessed
    /\ \E p \in Points(image) :
          IsolatedPixel(image, p) /\ CrossOf(image, p) # {p} /\ AtP(ret.mask, p) = 0
    /\ \E p \in Points(image) :
        /\ SinglePixelHole(image, p)
        /\ \A q \in CrossOf(image, p) \ {p} : CoveredByElement(image, q)
        /\ AtP(ret.mask, p) = 255
        /\ \E q \in Points(image) : AtP(ret.mask, q) = 0 /\ AtP(image, q) = 0 /\ q # p

-----------------------------------------------------------------------------
\* The points of the contours of a mask.
ContourPoints(mask) ==
    LET cs == cvFindContours(mask)
    IN  UNION {{cs[k][j] : j \in 1..Len(cs[k])} : k \in 1..Len(cs)}

\* C25: drawSegmentation blends the highlight colour into the foreground and
\* then draws the outlines of the mask's contours over the blended image: for
\* a mask with foreground the result has outline pixels, that is, the points
\* of the mask's contours all carry one colour, the colour of the outline.
C25_ContoursDrawn ==
    (Drew /\ ContourPoints(prev[1].mask) # {}) =>
        \E colour \in {AtP(ret.out, p) : p \in ContourPoints(prev[1].mask)} :
            \A p \in ContourPoints(prev[1].mask) : AtP(ret.out, p) = colour

-----------------------------------------------------------------------------
(* otsuThreshold on images of up to four intensities, among them images    *)
(* in which two thresholds give the same between-class variance.  The      *)
(* threshold depends on the histogram only: the pixels are in ascending    *)
(* order.                                                                  *)

OtWidth == 3
OtHeight == 3

OtsuLevels == <<10, 12, 14, 17>>

\* The image whose first c[1] pixels have the first intensity, the pixels up
\* to c[2] the second, up to c[3] the third, the others the fourth.
OtsuImages ==
    {[w |-> OtWidth, h |-> OtHeight,
      px |-> [i \in 1..(OtWidth * OtHeight) |->
                OtsuLevels[1 + Cardinality({k \in 1..3 : i > c[k]})]]]
       : c \in {d \in (0..(OtWidth * OtHeight)) \X (0..(OtWidth * OtHeight))
                        \X (0..(OtWidth * OtHeight)) : d[1] <= d[2] /\ d[2] <= d[3]}}

InitOT ==
    /\ image \in OtsuImages
    /\ call = NoCall
    /\ ret = NoRet
    /\ prev = <<NoCall, NoRet>>

NextOT ==
    \/ CallOtsuThreshold
    \/ Release

SpecOT == InitOT /\ [][NextOT]_vars

OtsuReturned == call.entry = "otsuThreshold" /\ ret.kind = "mask"

\* The between-class variance w1*(mu1 - mu)^2 + w2*(mu2 - mu)^2 of the split
\* at t, times N^3, as a fraction <<numerator, denominator>>; 0 when a class
\* is empty.
BetweenClassVariance(m, t) ==
    LET N == Len(m.px)
        S == SumIn(m, 0, 255)
        n1 == CountIn(m, 0, t)
        n2 == N - n1
        e1 == SumIn(m, 0, t) * N - S * n1
        e2 == SumIn(m, t + 1, 255) * N - S * n2
    IN  IF n1 = 0 \/ n2 = 0 THEN <<0, 1>> ELSE <<e1 * e1 * n2 + e2 * e2 * n1, n1 * n2>>

\* The thresholds of 0..255 at which the between-class variance is largest.
VarianceMaximisers(m) ==
    LET v == [t \in 0..255 |-> BetweenClassVariance(m, t)]
        RECURSIVE Largest(_, _)
        Largest(lo, hi) ==
            IF lo = hi THEN v[lo]
            ELSE LET mid == (lo + hi) \div 2
                     a == Largest(lo, mid)
                     b == Largest(mid + 1, hi)
                 IN  IF b[1] * a[2] > a[1] * b[2] THEN b ELSE a
        top == Largest(0, 255)
    IN  {t \in 0..255 : v[t][1] * top[2] = top[1] * v[t][2]}

BinarizedAbove(m, t) == [m EXCEPT !.px = [i \in DOMAIN m.px |-> IF m.px[i] > t THEN 255 ELSE 0]]

IntensitiesOf(m) == {m.px[i] : i \in 1..Len(m.px)}

\* C26 as stated: the mask of otsuThreshold is the image binarized at the
\* lowest threshold of 0..255 that maximizes the between-class variance.
C26_OtsuLowestMaximiser ==
    OtsuReturned => ret.mask = BinarizedAbove(image, SetMin(VarianceMaximisers(image)))

\* C26 amended: the mask of otsuThreshold is the image binarized at a
\* threshold of 0..255 that maximizes the between-class variance (the lowest
\* one when all maximizers give the same mask); for an image of exactly two
\* intensities a < b the pixels of value a are background and those of
\* value b foreground.
C26_OtsuMaximiser ==
    OtsuReturned =>
        LET best == VarianceMaximisers(image)
            masks == {BinarizedAbove(image, t) : t \in best}
        IN  /\ ret.mask \in masks
            /\ Cardinality(masks) = 1 => ret.mask = BinarizedAbove(image, SetMin(best))
            /\ Cardinality(IntensitiesOf(image)) = 2 =>
                  \A i \in 1..Len(image.px) :
                     ret.mask.px[i] =
                        IF image.px[i] = SetMax(IntensitiesOf(image)) THEN 255 ELSE 0

\* An image of three intensities in which two thresholds separated by an
\* intensity that occurs give the same variance, binarized at the higher one.
C26_Witness ==
    /\ OtsuReturned
    /\ Cardinality(IntensitiesOf(image)) = 3
    /\ LET best == VarianceMaximisers(image)
       IN  /\ BinarizedAbove(image, SetMin(best)) # BinarizedAbove(image, SetMax(best))
           /\ ret.mask = BinarizedAbove(image, SetMax(best))

-----------------------------------------------------------------------------
(* regionGrowing with seeds on and around the border of the image.         *)

\* Points on the corners of the image and one step outside of them.
BorderSeedPoints(m) == {-1, 0, m.w - 1, m.w} \X {-1, 0, m.h - 1, m.h}

BorderSeedLists(m) ==
    {<<p>> : p \in BorderSeedPoints(m)} \cup {<<<<0, 0>>, p>> : p \in BorderSeedPoints(m)}

InitSB ==
    /\ image \in Images \ {EmptyMat}
    /\ call = NoCall
    /\ ret = NoRet
    /\ prev = <<NoCall, NoRet>>

CallRegionGrowingAtBorder ==
    /\ Idle
    /\ \E seeds \in BorderSeedLists(image), tol \in Tolerances :
        /\ call' = Called("regionGrowing", "REGION_GROWING", FALSE,
                          [seeds |-> seeds, tol |-> tol, connectivity |-> 8])
        /\ ret' \in regionGrowing(image, call'.params)
    /\ UNCHANGED <<image, prev>>

NextSB ==
    \/ CallRegionGrowingAtBorder
    \/ Release

SpecSB == InitSB /\ [][NextSB]_vars

\* The coordinates outside the image at which line 135, mask.at<uchar>(seed),
\* reads the mask.
SeedReadsOutside(m, seeds) ==
    {seeds[k] : k \in {j \in 1..Len(seeds) : ~InBounds(m, seeds[j][1], seeds[j][2])}}

\* C27: regionGrowing never reads or writes a pixel outside the image, for
\* every seed list, seeds with negative coordinates or coordinates >= width
\* or height included: no access of the call is outside the image and the
\* call does not crash.
C27_NoAccessOutside ==
    (call.entry = "regionGrowing" /\ call.params.seeds # << >>) =>
        /\ ret.kind # "crash"
        /\ SeedReadsOutside(image, call.params.seeds) = {}

-----------------------------------------------------------------------------
\* watershed was called in manual mode with a seed in at least one list.
ManualSeedsGiven ==
    /\ WatershedCalled /\ ~call.params.useDistanceTransform
    /\ ~NoSeedsGiven(call.params) /\ ~IsEmpty(image)

SomeSeedInside ==
    \E s \in SeedSet(call.params.foregroundSeeds) \cup SeedSet(call.params.backgroundSeeds) :
        InBounds(image, s[1], s[2])

MarkerMapLabelled == \E i \in 1..Len(ret.markers.px) : ret.markers.px[i] # 0

\* C28 as stated: when manual mode reaches the flooding step the marker map
\* holds a labelled pixel, and when seeds are given but all lie outside the
\* image the call fails with NoMarkers.
C28_NoMarkersWhenAllOutside ==
    ManualSeedsGiven =>
        /\ Flooded => MarkerMapLabelled
        /\ ~SomeSeedInside => ErrorKind(ret) = "NoMarkers"

\* C28 amended: when manual mode reaches the flooding step the marker map
\* holds a labelled pixel exactly when some seed lies inside the image; when
\* seeds are given but all lie outside, the call does not fail: the all-zero
\* marker map is flooded and the mask returned is all background.
C28_AllOutsideFloodsEmptyMap ==
    ManualSeedsGiven =>
        /\ Flooded
        /\ MarkerMapLabelled <=> SomeSeedInside
        /\ ~SomeSeedInside => ret.mask = Zeros(image)

C28_Witness ==
    /\ ManualSeedsGiven /\ ~SomeSeedInside
    /\ Flooded /\ ~MarkerMapLabelled
    /\ ret.mask = Zeros(image)
    /\ \E i \in 1..Len(ret.labels.px) : ret.labels.px[i] = 0

-----------------------------------------------------------------------------
(* The segmentation panel and MainWindow::processImage.  Every widget of   *)
(* the panel emits settingsChanged when its value changes, and the signal  *)
(* is connected to processImage, which reads the panel and segments the    *)
(* displayed image.  Here prev is the state of the panel's widgets, image  *)
(* the displayed image, call and ret the engine call processImage made.    *)

\* The widgets as the panel's constructor and resetSettings leave them.
PanelDefaults ==
    [enabled |-> FALSE, method |-> "THRESHOLD", threshold |-> 128, maxValue |-> 255,
     invert |-> FALSE, blockSize |-> 11, C |-> 2, distanceTransform |-> TRUE,
     foregroundSeeds |-> << >>, backgroundSeeds |-> << >>]

\* The values the user moves the widgets between.
PanelStates ==
    [enabled : BOOLEAN, method : {"THRESHOLD", "OTSU", "ADAPTIVE_GAUSSIAN", "WATERSHED"},
     threshold : {128, 150}, maxValue : {255, 100}, invert : BOOLEAN,
     blockSize : {11, 3}, C : {2, 60}, distanceTransform : BOOLEAN,
     foregroundSeeds : {<< >>, <<<<0, 0>>>>}, backgroundSeeds : {<< >>}]

\* One widget has another value.
OneWidgetChanged(old, new) ==
    Cardinality({f \in DOMAIN old : old[f] # new[f]}) = 1

\* SegmentationPanel::getCurrentSettings.
getCurrentSettings(panel) ==
    [enabled |-> panel.enabled,
     method |-> panel.method,
     thresholdParams |-> [thr2 |-> 2 * panel.threshold, maxValue |-> panel.maxValue,
                          invert |-> panel.invert],
     adaptiveParams |-> [blockSize |-> panel.blockSize, C |-> panel.C,
                         maxValue |-> panel.maxValue, invert |-> FALSE],
     useDistanceTransform |-> panel.distanceTransform,
     foregroundSeeds |-> panel.foregroundSeeds,
     backgroundSeeds |-> panel.backgroundSeeds]

InitGUI ==
    /\ image \in Images \ {EmptyMat}
    /\ prev = PanelDefaults
    /\ call = NoCall
    /\ ret = NoRet

\* A widget changes and processImage runs: segment(displayImage, method),
\* without a parameter struct.
processImage ==
    \E panel \in PanelStates :
        /\ OneWidgetChanged(prev, panel)
        /\ prev' = panel
        /\ LET segSettings == getCurrentSettings(panel)
           IN  IF segSettings.enabled
               THEN /\ call' = Called("segment", segSettings.method, TRUE, << >>)
                    /\ ret' \in segment(image, segSettings.method, TRUE, << >>)
               ELSE /\ call' = NoCall
                    /\ ret' = NoRet
        /\ UNCHANGED image

NextGUI == processImage

SpecGUI == InitGUI /\ [][NextGUI]_vars

\* The parameters the panel holds for a method.
PanelParams(segSettings) ==
    CASE segSettings.method = "THRESHOLD" -> segSettings.thresholdParams
      [] segSettings.method = "ADAPTIVE_GAUSSIAN" -> segSettings.adaptiveParams
      [] segSettings.method = "WATERSHED" ->
           [useDistanceTransform |-> segSettings.useDistanceTransform,
            foregroundSeeds |-> segSettings.foregroundSeeds,
            backgroundSeeds |-> segSettings.backgroundSeeds]
      [] OTHER -> << >>

\* C30: with segmentation enabled, the engine call made by processImage
\* carries the panel's current values for the selected method (threshold, max
\* value, invert, block size, C, watershed mode and seeds), and the mask is
\* the one the engine gives for them.
C30_PanelParametersUsed ==
    (call.entry = "segment" /\ call.method # "OTSU") =>
        /\ ~call.null
        /\ call.params = PanelParams(getCurrentSettings(prev))
        /\ ret \in segment(image, call.method, FALSE, PanelParams(getCurrentSettings(prev)))

-----------------------------------------------------------------------------
(* One call of regionGrowing, step by step: entering the function (lines   *)
(* 125-133), one turn of the loop over the seeds (134-138, 171), one turn  *)
(* of the loop over the frontier (140-168).  Here prev holds the locals of *)
(* the call and what it has done so far: the pushes onto the frontier and, *)
(* for every pixel, how many times line 146 claimed and expanded it.       *)

RsImages == ImagesOver({10, 12})

RsTolerances == {0, 2}

RsSeedLists(m) ==
    {<< >>, <<<<0, 0>>>>, <<<<m.w - 1, m.h - 1>>, <<0, 0>>>>, <<<<0, 0>>, <<0, 0>>>>,
     <<<<m.w, 0>>, <<0, 0>>>>, <<<<-1, 0>>, <<0, 0>>>>, <<<<-1, 0>>, <<-1, 0>>>>}

RsIdle ==
    [pc |-> "idle", mask |-> EmptyMat, seeds |-> << >>, queue |-> << >>, outside |-> {},
     pushes |-> 0, claims |-> << >>]

InitRS ==
    /\ image \in RsImages
    /\ call = NoCall
    /\ ret = NoRet
    /\ prev = RsIdle

\* Lines 125-133.
RsCall ==
    /\ prev.pc = "idle"
    /\ \E seeds \in RsSeedLists(image), tol \in RsTolerances :
        /\ call' = Called("regionGrowing", "REGION_GROWING", FALSE,
                          [seeds |-> seeds, tol |-> tol, connectivity |-> 8])
        /\ IF seeds = << >>
           THEN /\ ret' = Thrown(<<MsgNoSeeds>>, EmptyMat, <<"regionGrowing", "prepareImage">>)
                /\ prev' = [prev EXCEPT !.pc = "done"]
           ELSE /\ ret' = NoRet
                /\ prev' = [prev EXCEPT !.pc = "seeds",
                                        !.mask = Zeros(prepareImage(image)),
                                        !.seeds = seeds,
                                        !.claims = [i \in 1..(image.w * image.h) |-> 0]]
    /\ UNCHANGED image

\* The process dies on an access outside the buffer.
RsCrash ==
    /\ ret' = Crashed(<<"regionGrowing", "prepareImage">>)
    /\ prev' = [prev EXCEPT !.pc = "done"]

\* Lines 134-138 and 171.
RsSeed ==
    /\ prev.pc = "seeds"
    /\ IF prev.seeds = << >>
       THEN /\ ret' = Returned(prev.mask, prev.mask, <<"regionGrowing", "prepareImage">>)
            /\ prev' = [prev EXCEPT !.pc = "done"]
       ELSE LET seed == Head(prev.seeds)
                skip == /\ ret' = ret
                        /\ prev' = [prev EXCEPT !.seeds = Tail(prev.seeds)]
                push == /\ ret' = ret
                        /\ prev' = [prev EXCEPT !.pc = "grow", !.seeds = Tail(prev.seeds),
                                                !.queue = <<seed>>,
                                                !.pushes = prev.pushes + 1]
            IN  IF IsClaimed(prev.mask, prev.outside, seed) THEN skip
                ELSE IF InBuffer(prev.mask, seed) THEN push
                ELSE RsCrash \/ skip \/ push
    /\ UNCHANGED <<image, call>>

\* Lines 140-168.
RsGrow ==
    /\ prev.pc = "grow"
    /\ IF prev.queue = << >>
       THEN /\ ret' = ret
            /\ prev' = [prev EXCEPT !.pc = "seeds"]
       ELSE LET current == prev.queue[Len(prev.queue)]
                rest == SubSeq(prev.queue, 1, Len(prev.queue) - 1)
                processed == prepareImage(image)
                i == AddressOf(prev.mask, current) + 1
                expand(claimed, intensity) ==
                    LET admitted == AdmittedFrom(processed, claimed, current, intensity,
                                                 call.params.tol)
                    IN  [prev EXCEPT !.mask = claimed,
                                     !.queue = rest \o admitted,
                                     !.pushes = prev.pushes + Len(admitted)]
            IN  IF IsClaimed(prev.mask, prev.outside, current)
                THEN /\ ret' = ret
                     /\ prev' = [prev EXCEPT !.queue = rest]
                ELSE IF InBuffer(prev.mask, current)
                THEN /\ ret' = ret
                     /\ prev' = [expand([prev.mask EXCEPT !.px[i] = 255], processed.px[i])
                                    EXCEPT !.claims[i] = prev.claims[i] + 1]
                ELSE \/ RsCrash
                     \/ /\ ret' = ret
                        /\ \E intensity \in OutsideBytes :
                              prev' = [expand(prev.mask, intensity)
                                         EXCEPT !.outside = prev.outside \cup {i - 1}]
    /\ UNCHANGED <<image, call>>

\* The caller drops the outcome.
RsRelease ==
    /\ prev.pc = "done"
    /\ call' = NoCall
    /\ ret' = NoRet
    /\ prev' = RsIdle
    /\ UNCHANGED image

NextRS ==
    \/ RsCall
    \/ RsSeed
    \/ RsGrow
    \/ RsRelease

\* The thread that runs the call keeps running.
SpecRS == InitRS /\ [][NextRS]_vars /\ WF_vars(NextRS)

RsRunning == prev.pc \in {"seeds", "grow"}

\* No pixel was claimed or expanded twice, and the pushes are within
\* seeds + 8 * pixels.
RsWithinBound ==
    RsRunning \/ prev.pc = "done" =>
        /\ \A i \in DOMAIN prev.claims : prev.claims[i] <= 1
        /\ prev.pushes <= Len(call.params.seeds) + 8 * (image.w * image.h)

\* A step of the call leaves every claimed pixel claimed.
RsNeverReset ==
    RsRunning =>
        \A i \in DOMAIN prev.mask.px : prev.mask.px[i] = 255 => prev'.mask.px[i] = 255

\* C29: regionGrowing terminates for every image and seed list: each pixel
\* is claimed (set to 255) at most once and never reset, a claimed pixel is
\* never expanded again, the frontier pushes number at most seeds + 8 * pixels,
\* and a call that has started comes to its end.
C29_TerminatesWithinBound ==
    /\ []RsWithinBound
    /\ [][RsNeverReset]_vars
    /\ (RsRunning ~> prev.pc = "done")

\* A call has returned a mask that is all foreground, after pushing points
\* that were claimed by the time they were popped.
C29_Witness ==
    /\ prev.pc = "done"
    /\ ret.kind = "mask"
    /\ \A i \in DOMAIN prev.claims : prev.claims[i] = 1
    /\ prev.pushes > image.w * image.h

====
